---- MODULE Spec2Model ----
(***************************************************************************)
(* ClaudeSync: the push command (cli/main.py), the merge of the main and   *)
(* the referenced projects' files, the retry decorator and the             *)
(* uncompressed synchronisation of SyncManager (syncmanager.py), run       *)
(* against a remote provider that keeps a list of file records; the        *)
(* collection of a project's files (utils.py), the resolution of the       *)
(* references (project_references_manager.py, file_config_manager.py) and  *)
(* the packing of the compressed strategy (syncmanager.py).                *)
(***************************************************************************)
EXTENDS Integers, Sequences, FiniteSets, TLC

\* ------------------------------------------------------------------ bounds
MaxRemote == 2          \* records in the remote project before the first push
MaxRuns == 2            \* push commands run one after the other

\* ------------------------------------------------------- program constants
max_retries == 3        \* retry_on_403(max_retries=3, delay=1)

\* --------------------------------------------------------------- universes
Paths == {"a", "b"}                 \* relative paths / remote file names
Contents == {"c1", "c2"}            \* file contents
NoFile == "absent"                  \* the path does not exist under the root
RefIds == {"ref1", "ref2"}          \* ids of referenced projects
Roots == {"main"} \cup RefIds       \* project root directories
NoRec == [file_name |-> "", uuid |-> 0, content |-> "", created_at |-> 0]
EmptyMap == [p \in {} |-> 0]

VARIABLES
    fs,                     \* fs[root][path]: content of the local file, or NoFile
    mtime,                  \* mtime[root][path]: modification time of the local file
    remote,                 \* the provider's records of the project, in listing order
    nextUuid,               \* uuid the provider gives the next uploaded file
    config,                 \* two_way_sync, prune_remote_files
    references,             \* the declared references, in the order they are resolved
    run,                    \* number of push commands started
    prev,                   \* how the previous push ended: "none", "done", "failed"
    mode,                   \* "main": try block of push; "fallback": its except block
    pc,                     \* position of the running push
    files_by_project,       \* push: project id -> (path -> FileInfo)
    mergeTodo,              \* push: referenced projects still to merge
    all_files,              \* push: the merged set handed to sync as local_files
    remote_files,           \* sync: the listing fetched before sync
    remote_files_to_delete, \* sync: names that are candidates for pruning
    synced_files,           \* sync: names uploaded or written in this sync
    todo,                   \* sync: local files the local->remote loop has not visited
    visited,                \* sync: local files visited, in the order of the visits
    cur,                    \* the file an update or a wrapped delete is working on
    twIdx,                  \* sync: index of the two-way loop in remote_files
    pruneTodo,              \* sync: names the prune loop has not visited
    attempt,                \* retry_on_403: the loop variable of the running wrapper
    attemptLog,             \* retry_on_403: outcome of every attempt of the last wrapped call
    sleeps,                 \* retry_on_403: backoff sleeps of the last wrapped call
    wres,                   \* retry_on_403: how the last wrapped call ended
    err,                    \* the exception that ended the last sync, or "none"
    errBy,                  \* the operation that raised it
    calls,                  \* provider calls and local writes of the running sync, in order
    tree,                   \* collection: the files under one project root
    files_config,           \* collection: the project's configuration dict
    collected,              \* collection: the paths _collect_project_files returned
    ignore_files,           \* collection: the lines of .gitignore and .claudeignore
    nested,                 \* the references field of every referenced project's config
    reference_paths,        \* project_id.json: reference id -> the kind of path it maps to
    resolved,               \* what the last get_referenced_projects call did
    text_files,             \* compression: path -> text of the files to pack
    packed_content,         \* compression: the stream _pack_files returned
    written,                \* compression: the _write_file calls of _unpack_files, in order
    utime_fails,            \* the local paths whose os.utime raises OSError
    config_dir,             \* .claudesync: the project files and active_project.json
    created,                \* projects the provider has created
    last_command,           \* the last command that ran against .claudesync
    project,                \* push: the project it synchronises and its id
    now,                    \* the clock datetime.now() reads
    key_file,               \* ~/.claudesync/claude.ai.key, or NoKeyFile
    session_set,            \* what the last set_session_key stored, until a clear
    session_result,         \* what get_session_key returned, if it ran last
    local_config,           \* FileConfigManager.local_config: key -> value or Unset
    global_config,          \* FileConfigManager.global_config: key -> value or Unset
    get_result,             \* what the last FileConfigManager.get returned
    referenced_configs_cache, \* _referenced_configs_cache: reference id -> config
    loaded                  \* the last call of _load_referenced_project_config or
                            \* clear_reference_cache

vars == <<fs, mtime, remote, nextUuid, config, references, run, prev, mode, pc,
          files_by_project, mergeTodo, all_files, remote_files,
          remote_files_to_delete, synced_files, todo, visited, cur, twIdx,
          pruneTodo, attempt, attemptLog, sleeps, wres, err, errBy, calls,
          tree, files_config, collected, ignore_files, nested, reference_paths, resolved,
          text_files, packed_content, written, utime_fails,
          config_dir, created, last_command, project,
          now, key_file, session_set, session_result,
          local_config, global_config, get_result, referenced_configs_cache, loaded>>

\* ----------------------------------------------------------------- helpers
Min(S) == CHOOSE x \in S : \A y \in S : x <= y

Range(s) == {s[i] : i \in 1..Len(s)}

SeqsUpTo(S, n) == UNION {[1..k -> S] : k \in 0..n}

Overlay(f, g) == [p \in (DOMAIN f) \cup (DOMAIN g) |-> IF p \in DOMAIN g THEN g[p] ELSE f[p]]

\* hashlib.md5(content.encode("utf-8")).hexdigest(): a digest that depends on
\* the content alone; distinct contents of the model have distinct digests.
compute_md5_hash(content) == <<"md5", content>>

\* A Python str object holding a digest.
PyStr(digest) == [type |-> "str", hash |-> digest, root_path |-> "none"]

\* FileInfo(path, hash, source, project_id, root_path, included)
FileInfo(digest, root) == [type |-> "FileInfo", hash |-> digest, root_path |-> root]

\* Python's a != b for the two kinds of object: str compares by value; FileInfo
\* defines no __eq__, so it differs from every other object.
PyNotEqual(a, b) == IF a.type = "str" /\ b.type = "str" THEN a.hash # b.hash ELSE TRUE

\* process_file: the digest of the file's text.
process_file(root, path) == compute_md5_hash(fs[root][path])

\* _collect_project_files and _collect_referenced_files of a project whose
\* include pattern names the directory of its files (such as 'src/*'; Paths
\* are the files below it): every file of the root.
collect_project_files(root) ==
    [p \in {q \in Paths : fs[root][q] # NoFile} |-> FileInfo(process_file(root, p), root)]

\* The path a reference id is mapped to, by what the validations look at.
\* Every path names a well-formed .project.json file; "relative" is not
\* absolute, "missing" does not exist, "unreadable" cannot be opened,
\* "symlink" is a symbolic link to such a file, "outside" lies in no
\* .claudesync directory.
PathKinds == {"ok", "relative", "missing", "unreadable", "symlink", "outside"}
NoMapping == "unmapped"
is_absolute(k) == k # "relative"
path_exists(k) == k # "missing"
path_readable(k) == k \notin {"missing", "unreadable"}
is_symlink(k) == k = "symlink"
in_config_dir(k) == k # "outside"

\* ProjectReferencesManager._is_valid_project_path: the file exists and its
\* JSON can be read.
is_valid_project_path(k) == path_exists(k) /\ path_readable(k)

\* FileConfigManager._validate_reference_path
validate_reference_path(k) ==
    /\ is_absolute(k)
    /\ path_exists(k) /\ path_readable(k)
    /\ in_config_dir(k)
    /\ ~is_symlink(k)

NoName == [what |-> "none", ref |-> "none"]
NoResolution == [raised |-> FALSE, mapping |-> {}, named |-> NoName]

RECURSIVE ResolveFrom(_, _, _)

\* Mutant: an invalid reference is skipped and the loop goes on.
SkipReference(refs, rp, acc, what) == ResolveFrom(Tail(refs), rp, acc)

\* get_referenced_projects: raise ConfigurationError(...); the message holds
\* the reference id if the mapping is missing, else the path.
RaiseConfigurationError(refs, rp, acc, what) ==
    [raised |-> TRUE, mapping |-> {}, named |-> [what |-> what, ref |-> Head(refs)]]

\* get_referenced_projects: the loop over the declared references.
ResolveFrom(refs, rp, acc) ==
    IF refs = <<>> THEN [raised |-> FALSE, mapping |-> acc, named |-> NoName]
    ELSE LET ref_id == Head(refs)
         IN  IF rp[ref_id] = NoMapping THEN RaiseConfigurationError(refs, rp, acc, "ref_id")
             ELSE IF ~is_absolute(rp[ref_id]) THEN RaiseConfigurationError(refs, rp, acc, "path")
             ELSE IF ~is_valid_project_path(rp[ref_id])
                  THEN RaiseConfigurationError(refs, rp, acc, "path")
             ELSE ResolveFrom(Tail(refs), rp, acc \cup {ref_id})

get_referenced_projects == ResolveFrom(references, reference_paths, {})

\* The resolved references in the order of the dict get_referenced_projects built.
ResolvedOrder == SelectSeq(references, LAMBDA r : r \in get_referenced_projects.mapping)

\* _collect_referenced_files: no file unless the reference is mapped and
\* _load_referenced_project_config validates its path.
collect_referenced_files(ref_id) ==
    IF reference_paths[ref_id] # NoMapping /\ validate_reference_path(reference_paths[ref_id])
    THEN collect_project_files(ref_id)
    ELSE EmptyMap

\* get_local_files(config, root_path, files_config) with the FileConfigManager:
\* the main project's files, then, reference by reference, the files whose
\* path is not in the set yet.
RECURSIVE MergeReferences(_, _)
MergeReferences(acc, refs) ==
    IF refs = <<>> THEN acc
    ELSE MergeReferences(Overlay(collect_referenced_files(Head(refs)), acc), Tail(refs))

get_local_files == MergeReferences(collect_project_files("main"), references)

\* No referenced project declares references of its own.
NoNested == [r \in RefIds |-> <<>>]

\* Mutant: the project's config dict answers get_active_project and
\* _get_reference_paths as the FileConfigManager does.
HasManagerMethodsAlways(kind) == TRUE

\* get_local_files: config.get_active_project() and config._get_reference_paths
\* exist on the FileConfigManager; on a dict the call raises AttributeError,
\* which 'except Exception' turns into 'return main_files'.
HasManagerMethods(kind) == kind = "manager"

\* get_local_files(config, root_path, files_config) for the project pid whose
\* files_config declares refs: its own files if it declares none or the
\* reference paths cannot be had, else its files and those of refs.
get_local_files_of(kind, pid, refs) ==
    IF refs = <<>> \/ ~HasManagerMethods(kind) THEN collect_project_files(pid)
    ELSE MergeReferences(collect_project_files(pid), refs)

\* get_all_project_files: 'main' first, then every resolved reference in the
\* declared order; a ConfigurationError of get_referenced_projects leaves the
\* main project alone in the result. get_local_files is called with the
\* project's config dict as its config, so its own reference handling ends in
\* the except branch and it returns the files of that one project.
get_all_project_files ==
    [pid \in {"main"} \cup get_referenced_projects.mapping |->
        get_local_files_of("dict", pid, IF pid = "main" THEN references ELSE nested[pid])]

\* Mutant: a path already in the merged set is kept.
AddProjectFilesIfAbsent(acc, files, root) ==
    Overlay([p \in DOMAIN files |-> [type |-> "dict", hash |-> files[p], root_path |-> root]], acc)

\* push: all_files[file_path] = {'hash': file_hash, 'root_path': root} for every
\* file of one project; file_hash is the value get_local_files stored, a FileInfo.
AddProjectFiles(acc, files, root) ==
    Overlay(acc, [p \in DOMAIN files |-> [type |-> "dict", hash |-> files[p], root_path |-> root]])

\* _sync_without_compression: local_hash and file_root of one entry.
HasGet(file_info) == file_info.type = "dict"
local_hash(file_info) == IF file_info.type = "str" THEN file_info ELSE file_info.hash
file_root(file_info) == IF file_info.type = "dict" THEN file_info.root_path ELSE "main"

\* Mutant: the update forgets to take the name out of the candidates.
RemoveCandidateKeeps(cands, name) == cands

\* update_existing_file: remote_files_to_delete.remove(local_file)
RemoveCandidate(cands, name) == cands \ {name}

\* next((rf for rf in remote_files if rf["file_name"] == name), None)
FirstMatch(rfs, name) ==
    LET I == {i \in 1..Len(rfs) : rfs[i].file_name = name}
    IN  IF I = {} THEN NoRec ELSE rfs[Min(I)]

FileNames(rfs) == {rfs[i].file_name : i \in 1..Len(rfs)}

\* The provider (external): delete_file removes the record with the uuid,
\* upload_file adds a record with a fresh uuid and the content it was given.
ProviderDelete(store, uuid) == SelectSeq(store, LAMBDA r : r.uuid # uuid)
ProviderUpload(store, name, content, uuid) ==
    Append(store, [file_name |-> name, uuid |-> uuid, content |-> content, created_at |-> uuid])

\* Outcomes of one provider call: it succeeds, raises ProviderError with
\* "403 Forbidden" in its message, raises another ProviderError, or raises an
\* exception that is no ProviderError.
CallOutcomes == {"ok", "403", "provider", "other"}
IsProviderError(o) == o \in {"403", "provider"}

\* Mutant: a 403 is retried however many attempts were made.
ShouldRetryUnbounded(o, att) == IsProviderError(o) /\ o = "403"

\* Mutant: every ProviderError is retried.
ShouldRetryAnyProviderError(o, att) == IsProviderError(o) /\ att < max_retries - 1

\* retry_on_403: the condition under which the wrapper sleeps and loops.
ShouldRetry(o, att) == IsProviderError(o) /\ o = "403" /\ att < max_retries - 1

\* push: an exception in the try block starts the fallback; one in the
\* fallback ends the command with ConfigurationError.
OnRaise(m) == IF m = "main" THEN "fallback" ELSE "failed"

\* Mutant: the error of an upload action is logged and the loop goes on.
LogAndGoOn(m) == "local"

\* upload_new_file, update_existing_file: 'except Exception as e: ... raise';
\* the error leaves sync and reaches push.
Reraise(m) == OnRaise(m)

\* Mutant: an uploaded file is not recorded.
MarkSyncedForgets(synced, name) == synced

\* synced_files.add(local_file)
MarkSynced(synced, name) == synced \cup {name}

\* Mutant: the tracking of the earlier sync call is kept.
KeptTracking(old) == old

\* sync: self.synced_files = {}; _sync_without_compression: synced_files = set()
NewTracking(old) == {}

\* Mutant: the StopIteration of the lookup leaves prune_remote_files.
StopIterationEscapes(m) == OnRaise(m)

\* prune_remote_files: 'except StopIteration: logger.warning(...); continue'
CatchStopIteration(m) == "pruning"

Ev(op, name, uuid, content, by, res) ==
    [op |-> op, name |-> name, uuid |-> uuid, content |-> content, by |-> by, res |-> res]

\* ------------------------------- the .claudesync directory (configmanager)
ProjectNames == {"all", "lib"}      \* internal names of projects
NoPath == "none"                    \* None as a project path
NoId == <<>>                        \* no <name>.project_id.json
EmptyId == <<"">>                   \* a project_id.json whose project_id is empty
ProjectUuid(n) == <<"uuid", n>>     \* uuid of the n-th project the provider created
MaxCreated == 2                     \* projects the provider creates

NoProject == [project_path |-> NoPath, project_id |-> NoId]
Command(op, path, id, ok) == [op |-> op, path |-> path, id |-> id, ok |-> ok]
NoCommand == Command("none", NoPath, NoId, FALSE)

\* get_project_id: ConfigurationError unless <path>.project_id.json exists,
\* else the project_id it holds.
HasProjectId(dir, path) == path \in ProjectNames /\ dir.project_id[path] # NoId
get_project_id(dir, path) == dir.project_id[path]

\* get_active_project: (None, None) without active_project.json
get_active_project(dir) == dir.active_project

\* Mutant: the path is stored with the id that was active before.
set_active_project_stale(dir, path, id) ==
    [dir EXCEPT !.active_project = [project_path |-> path,
                                    project_id |-> dir.active_project.project_id]]

\* set_active_project: active_project.json is written anew.
set_active_project(dir, path, id) ==
    [dir EXCEPT !.active_project = [project_path |-> path, project_id |-> id]]

\* ------------------------------------- session key (file_config_manager.py)
MaxTime == 4                        \* the clock's last reading, in half seconds
SessionKeys == {"sk1", "sk2"}
NoKeyFile == [exists |-> FALSE, session_key |-> <<>>, session_key_encryption_method |-> "",
              session_key_expiry |-> <<>>]
NoneNone == [session_key |-> "None", expiry |-> -1]
NoResult == [session_key |-> "no call", expiry |-> -1]

\* A datetime is a number of half seconds. datetime.isoformat() writes the
\* seconds and, unless they are zero, the microseconds; fromisoformat reads
\* both forms.
isoformat(t) == IF t % 2 = 0 THEN <<t \div 2>> ELSE <<t \div 2, ".", 500000>>
fromisoformat(str) == IF Len(str) = 1 THEN 2 * str[1] ELSE 2 * str[1] + 1

\* SessionKeyManager: the key is encrypted with a key derived from the SSH
\* key and decrypted with the same.
encrypt_session_key(session_key) == [encrypted |-> <<"encrypted", session_key>>, method |-> "ssh"]
decrypt_session_key(method, encrypted) == encrypted[2]

\* Mutant: the expiry is not looked at.
ExpiredNever(t, expiry) == FALSE

\* get_session_key: datetime.now() > expiry
Expired(t, expiry) == t > expiry

\* get_session_key
get_session_key(file, t) ==
    IF ~file.exists THEN NoneNone
    ELSE IF file.session_key = <<>> \/ file.session_key_expiry = <<>> THEN NoneNone
    ELSE IF Expired(t, fromisoformat(file.session_key_expiry)) THEN NoneNone
    ELSE [session_key |-> decrypt_session_key(file.session_key_encryption_method,
                                              file.session_key),
          expiry |-> fromisoformat(file.session_key_expiry)]

NoSession ==
    /\ now = 0 /\ key_file = NoKeyFile
    /\ session_set = NoneNone /\ session_result = NoResult

\* One project, created earlier and active.
OneActiveProject ==
    /\ config_dir = [project_id |-> [n \in ProjectNames |->
                                       IF n = "all" THEN ProjectUuid(0) ELSE NoId],
                     project_json |-> {"all"},
                     active_project |-> [project_path |-> "all", project_id |-> ProjectUuid(0)]]
    /\ created = 0
    /\ last_command = NoCommand
    /\ project = NoProject

\* ------------------------------------------------- collection (utils.py)
\* A name and a pattern segment are sequences of characters; a relative path
\* and a pattern are the sequences of their '/'-separated segments.
Star == <<"*">>
SrcDir == <<"s", "r", "c">>
GitDir == <<".", "g", "i", "t">>
LibDir == <<"l", "i", "b">>
APy == <<"a", ".", "p", "y">>
BTxt == <<"b", ".", "t", "x", "t">>
CPyTilde == <<"c", ".", "p", "y", "~">>
PatStar == <<Star>>                                  \* "*"
PatPy == << <<"*", ".", "p", "y">> >>                \* "*.py"
PatTxt == << <<"*", ".", "t", "x", "t">> >>          \* "*.txt"
PatSrcPy == <<SrcDir, <<"*", ".", "p", "y">> >>      \* "src/*.py"
PatSrc == <<SrcDir>>                                 \* "src"

DefaultMaxFileSize == 32768     \* config_manager.get("max_file_size", 32 * 1024)
ScenarioSize == 500             \* the 500 bytes of the files of Scenario A
SampleSize == 8192              \* is_text_file(file_path, sample_size=8192)
ConfigKeys == {"includes", "excludes", "push_roots", "max_file_size", "use_ignore_files"}

\* dict.get(key, default) of a configuration dict
Get(cfg, key, default) == IF key \in cfg.keys THEN cfg[key] ELSE default

TreePaths ==
    {<<APy>>, <<BTxt>>, <<CPyTilde>>, <<SrcDir, APy>>, <<SrcDir, BTxt>>, <<GitDir, APy>>}
FileSizes == {ScenarioSize, ScenarioSize + 1, DefaultMaxFileSize, DefaultMaxFileSize + 1}
\* A file: its size in bytes; where it holds a NUL byte ("none", in the
\* "sample" of the first 8192 bytes, or only "later"); whether its bytes are
\* UTF-8; whether it can be opened; whether os.path.getsize can stat it.
PlainFile == [size |-> ScenarioSize, nul |-> "none", utf8 |-> TRUE, readable |-> TRUE,
              stat |-> TRUE]
Absent == [size |-> 0, nul |-> "none", utf8 |-> FALSE, readable |-> FALSE, stat |-> FALSE]
NoIgnoreFiles == [gitignore |-> <<>>, claudeignore |-> <<>>]
FilesOf(t) == {q \in DOMAIN t : t[q] # Absent}

\* One segment against one glob segment: '*' stands for any run of characters.
RECURSIVE Glob(_, _)
Glob(pat, s) ==
    IF pat = <<>> THEN s = <<>>
    ELSE IF Head(pat) = "*"
         THEN Glob(Tail(pat), s) \/ (s # <<>> /\ Glob(pat, Tail(s)))
         ELSE s # <<>> /\ Head(s) = Head(pat) /\ Glob(Tail(pat), Tail(s))

\* gitwildmatch: a pattern without '/' matches a file or a directory of that
\* name at any depth; a pattern with '/' is anchored at the root; a matched
\* directory matches everything below it.
GitWildMatch(pattern, path) ==
    IF Len(pattern) = 1
    THEN \E i \in 1..Len(path) : Glob(pattern[1], path[i])
    ELSE /\ Len(path) >= Len(pattern)
         /\ \A i \in 1..Len(pattern) : Glob(pattern[i], path[i])

\* PathSpec.from_lines("gitwildmatch", lines).match_file(path)
match_file(lines, path) == \E i \in 1..Len(lines) : GitWildMatch(lines[i], path)

\* Mutant: an empty includes list is taken for a missing one.
IncludesOrDefault(cfg) ==
    IF Get(cfg, "includes", <<>>) = <<>> THEN <<PatStar>> ELSE cfg.includes

\* files_config.get('includes', ['*'])
Includes(cfg) == Get(cfg, "includes", <<PatStar>>)

\* files_config.get('excludes', []); no exclude_spec is built for an empty list.
Excludes(cfg) == Get(cfg, "excludes", <<>>)

\* config_manager.get("max_file_size", 32 * 1024)
MaxFileSize(cfg) == Get(cfg, "max_file_size", DefaultMaxFileSize)

\* _collect_project_files: push_roots of the configuration, else the first
\* segment of every include pattern other than '*' whose first segment is
\* neither empty nor '*'.
RECURSIVE DerivedRoots(_, _)
DerivedRoots(includes, acc) ==
    IF includes = <<>> THEN acc
    ELSE LET pattern == Head(includes)
             base_dir == pattern[1]
         IN  IF pattern = PatStar THEN DerivedRoots(Tail(includes), acc)
             ELSE IF base_dir # <<>> /\ base_dir # Star /\ base_dir \notin Range(acc)
                  THEN DerivedRoots(Tail(includes), Append(acc, base_dir))
                  ELSE DerivedRoots(Tail(includes), acc)

PushRoots(cfg) ==
    LET push_roots == Get(cfg, "push_roots", <<>>)
    IN  IF push_roots = <<>> THEN DerivedRoots(Includes(cfg), <<>>) ELSE push_roots

exclude_dirs == {GitDir, <<".", "c", "l", "a", "u", "d", "e", "s", "y", "n", "c">>}

\* os.walk(root_path/base) with the excluded directories pruned: the files
\* below the directory; a base that is a file or does not exist yields none.
WalkFrom(t, base) ==
    {q \in FilesOf(t) :
        /\ Len(q) > Len(base)
        /\ \A i \in 1..Len(base) : q[i] = base[i]
        /\ \A i \in (Len(base) + 1)..(Len(q) - 1) : q[i] \notin exclude_dirs}

\* roots_to_traverse: every push root, or the project root if there is none.
Traversed(t, cfg) ==
    IF PushRoots(cfg) = <<>> THEN WalkFrom(t, <<>>)
    ELSE UNION {WalkFrom(t, <<PushRoots(cfg)[i]>>) : i \in 1..Len(PushRoots(cfg))}

\* Mutant: a file of exactly max_file_size bytes is rejected.
TooLargeInclusive(size, max_file_size) == size >= max_file_size

\* should_process_file: os.path.getsize(file_path) > max_file_size
TooLarge(size, max_file_size) == size > max_file_size

\* files_config.get("use_ignore_files", True)
UseIgnoreFiles(cfg) == Get(cfg, "use_ignore_files", TRUE)

\* Mutant: a file is ignored only if both ignore files match it.
IgnoredByBoth(ign, q) == match_file(ign.gitignore, q) /\ match_file(ign.claudeignore, q)

\* should_process_file: 'gitignore and gitignore.match_file(rel_path)', then
\* the same for claudeignore; a missing ignore file has no lines.
Ignored(ign, q) == match_file(ign.gitignore, q) \/ match_file(ign.claudeignore, q)

\* should_skip_directory for the directories between the traversal root and
\* the file.
should_skip_directory(ign, dir) ==
    match_file(ign.claudeignore, dir) \/ match_file(ign.gitignore, dir)

\* is_text_file: the sample has no NUL byte; an IOError of the read gives False.
is_text_file(file) == file.readable /\ file.nul # "sample"

\* os.path.getsize raises OSError for a file it cannot stat.
GetsizeRaises(file) == ~file.stat

\* should_process_file: the size, the '~' suffix, the ignore files, the
\* sample of the content.
should_process_file(t, cfg, ign, q) ==
    /\ ~TooLarge(t[q].size, MaxFileSize(cfg))
    /\ q[Len(q)][Len(q[Len(q)])] # "~"
    /\ UseIgnoreFiles(cfg) => ~Ignored(ign, q)
    /\ is_text_file(t[q])

\* process_file returns a hash: the file is opened and decoded as UTF-8;
\* UnicodeDecodeError and every other exception give None.
Hashable(file) == file.readable /\ file.utf8

\* os.walk with the directories should_skip_directory rejects pruned.
NotPruned(cfg, ign, q) ==
    UseIgnoreFiles(cfg) =>
        \A k \in 1..(Len(q) - 1) : ~should_skip_directory(ign, SubSeq(q, 1, k))

\* The files whose handling raises inside the loop body: os.path.getsize of
\* should_process_file, which is reached once the patterns let the file through.
Raising(t, cfg, ign) ==
    {q \in Traversed(t, cfg) :
        /\ NotPruned(cfg, ign, q)
        /\ match_file(Includes(cfg), q)
        /\ ~match_file(Excludes(cfg), q)
        /\ GetsizeRaises(t[q])}

\* Mutant: the exception of one file leaves the loop.
ExceptReraise(raising) == raising

\* 'except Exception as e: logger.error(...); continue': the exceptions that
\* leave the loop over the files.
ExceptContinue(raising) == {}

\* _collect_project_files: the keys of the dict it returns. An exception in
\* the handling of one file is logged and the loop goes on.
CollectProjectFiles(t, cfg, ign) ==
    {q \in Traversed(t, cfg) :
        /\ NotPruned(cfg, ign, q)
        /\ match_file(Includes(cfg), q)
        /\ ~match_file(Excludes(cfg), q)
        /\ ~GetsizeRaises(t[q])
        /\ should_process_file(t, cfg, ign, q)
        /\ Hashable(t[q])}

\* The values of the configuration keys, as Python objects: False and 0 are
\* falsy, the strings are not; None is what dict.get returns for a key that
\* is not set.
ConfigValues == {"False", "0", "on", "off"}
PyNone == "None"
Unset == "unset"
LookupKeys == {"two_way_sync", "upload_delay"}
Defaults == {PyNone, "fallback"}
NoGet == [key |-> "none", default |-> PyNone, value |-> PyNone]
NoCall == [called |-> FALSE, ref_id |-> "none",
           path |-> [kind |-> "unmapped", content |-> "none"], hit |-> FALSE,
           result |-> PyNone]
ClearCall == [NoCall EXCEPT !.ref_id = "clear_reference_cache"]

\* dict.get(key, default) of local_config and global_config
dict_get(d, key, default) == IF d[key] = Unset THEN default ELSE d[key]

\* bool(v) of Python
Truthy(v) == v \notin {"False", "0", PyNone}

\* a or b
PyOr(a, b) == IF Truthy(a) THEN a ELSE b

\* FileConfigManager.get(key, default)
get(key, default) ==
    PyOr(dict_get(local_config, key, PyNone), dict_get(global_config, key, default))

\* A FileConfigManager whose get and _load_referenced_project_config have not
\* run: no key is set, the cache of __init__ is empty.
IdleManager ==
    /\ local_config = [k \in LookupKeys |-> Unset]
    /\ global_config = [k \in LookupKeys |-> Unset]
    /\ get_result = NoGet
    /\ referenced_configs_cache = EmptyMap
    /\ loaded = NoCall

NoCollection ==
    /\ text_files = EmptyMap /\ packed_content = <<>> /\ written = <<>>
    /\ tree = [q \in TreePaths |-> Absent]
    /\ files_config = [keys |-> {}, includes |-> <<>>, excludes |-> <<>>,
                       push_roots |-> <<>>, max_file_size |-> 0,
                       use_ignore_files |-> TRUE]
    /\ ignore_files = NoIgnoreFiles
    /\ collected = {}
    /\ nested = NoNested

\* ------------------------------------------- compression (syncmanager.py)
\* A text is a sequence of tokens: the two marker prefixes, the dashes that
\* end a marker line, the blank, the line feed, and the characters and words
\* of paths and contents.
BeginMarker == "--- BEGIN FILE:"
EndMarker == "--- END FILE:"
Dashes == "---"
Space == " "
NL == "\n"
MaxText == 2                    \* tokens in the text of one file
TextTokens == {"x", "FILE:", NL}
Texts == UNION {[1..k -> TextTokens] : k \in 0..MaxText}
PackOrder == <<"a", "b">>       \* the order of local_files.items()

\* _pack_files: one file of the loop.
PackOne(file_path, content) ==
    <<BeginMarker, Space, file_path, Space, Dashes, NL>> \o content \o
    <<NL, EndMarker, Space, file_path, Space, Dashes, NL>>

RECURSIVE PackFrom(_, _)
PackFrom(files, order) ==
    IF order = <<>> THEN <<>>
    ELSE IF Head(order) \in DOMAIN files
         THEN PackOne(Head(order), files[Head(order)]) \o PackFrom(files, Tail(order))
         ELSE PackFrom(files, Tail(order))

pack_files(files) == PackFrom(files, PackOrder)

\* str.splitlines(): the lines between the line feeds; a line feed at the
\* end starts no further line.
RECURSIVE SplitLines(_, _)
SplitLines(text, line) ==
    IF text = <<>> THEN (IF line = <<>> THEN <<>> ELSE <<line>>)
    ELSE IF Head(text) = NL THEN <<line>> \o SplitLines(Tail(text), <<>>)
    ELSE SplitLines(Tail(text), Append(line, Head(text)))

StartsWith(line, marker) == line # <<>> /\ Head(line) = marker

\* str.strip(): the blanks at both ends go.
RECURSIVE Strip(_)
Strip(str) ==
    IF str = <<>> THEN str
    ELSE IF Head(str) = Space THEN Strip(Tail(str))
    ELSE IF str[Len(str)] = Space THEN Strip(SubSeq(str, 1, Len(str) - 1))
    ELSE str

\* line.split("--- BEGIN FILE:")[1].strip() of a line that starts with the marker
FileOfBeginLine(line) ==
    LET rest == Tail(line)
        I == {i \in 1..Len(rest) : rest[i] = BeginMarker}
    IN  Strip(IF I = {} THEN rest ELSE SubSeq(rest, 1, Min(I) - 1))

\* _unpack_files: the loop over the lines and the flush after it; the empty
\* sequence is the None (and the empty string) of current_file.
RECURSIVE UnpackLines(_, _, _, _)
UnpackLines(lines, current_file, current_content, writes) ==
    LET flushed == Append(writes, [path |-> current_file, content |-> current_content])
    IN  IF lines = <<>>
        THEN IF current_file # <<>> THEN flushed ELSE writes
        ELSE IF StartsWith(Head(lines), BeginMarker)
        THEN IF current_file # <<>>
             THEN UnpackLines(Tail(lines), FileOfBeginLine(Head(lines)), <<>>, flushed)
             ELSE UnpackLines(Tail(lines), FileOfBeginLine(Head(lines)), current_content, writes)
        ELSE IF StartsWith(Head(lines), EndMarker)
        THEN IF current_file # <<>>
             THEN UnpackLines(Tail(lines), <<>>, <<>>, flushed)
             ELSE UnpackLines(Tail(lines), current_file, current_content, writes)
        ELSE UnpackLines(Tail(lines), current_file,
                         current_content \o Head(lines) \o <<NL>>, writes)

unpack_files(packed) == UnpackLines(SplitLines(packed, <<>>), <<>>, <<>>, <<>>)

\* ------------------------------------------------------------------- Init
InitRemotes ==
    {s \in SeqsUpTo([file_name : Paths, content : Contents], MaxRemote) : TRUE}

MkRemote(s) ==
    [i \in 1..Len(s) |-> [file_name |-> s[i].file_name, uuid |-> i,
                          content |-> s[i].content, created_at |-> i]]

SyncState ==
    /\ run = 0 /\ prev = "none" /\ mode = "main" /\ pc = "idle"
    /\ files_by_project = EmptyMap /\ mergeTodo = <<>> /\ all_files = EmptyMap
    /\ remote_files = <<>> /\ remote_files_to_delete = {} /\ synced_files = {}
    /\ todo = {} /\ visited = <<>> /\ cur = "" /\ twIdx = 0 /\ pruneTodo = {}
    /\ attempt = 0 /\ attemptLog = <<>> /\ sleeps = 0 /\ wres = "none"
    /\ err = "none" /\ errBy = "none" /\ calls = <<>>
    /\ mtime = [r \in Roots |-> [p \in Paths |-> 0]]

\* Every os.utime call succeeds.
UtimeWorks == utime_fails = {}

\* The sync engine: one referenced project that may hold path "a".
Init ==
    /\ fs \in {f \in [Roots -> [Paths -> Contents \cup {NoFile}]] :
                 /\ f["ref1"]["a"] \in {NoFile, "c1"} /\ f["ref1"]["b"] = NoFile
                 /\ \A p \in Paths : f["ref2"][p] = NoFile}
    /\ references = <<"ref1">>
    /\ \E s \in InitRemotes : remote = MkRemote(s) /\ nextUuid = Len(s) + 1
    /\ config \in [two_way_sync : BOOLEAN, prune_remote_files : BOOLEAN]
    /\ reference_paths \in {rp \in [RefIds -> {"ok", NoMapping}] : rp["ref2"] = NoMapping}
    /\ resolved = NoResolution
    /\ SyncState
    /\ NoSession
    /\ UtimeWorks
    /\ OneActiveProject
    /\ NoCollection
    /\ IdleManager

\* ---------------------------------------------------------------- actions
collectVars == <<tree, files_config, collected, ignore_files, nested>>
managerVars == <<local_config, global_config, get_result, referenced_configs_cache, loaded>>
packVars == <<text_files, packed_content, written>>
dirVars == <<config_dir, created, last_command>>
sessionVars == <<now, key_file, session_set, session_result>>
confVars == <<config, references, collectVars, managerVars, reference_paths, resolved, packVars,
              utime_fails, sessionVars>>
envVars == <<confVars, dirVars, project>>
pushVars == <<files_by_project, mergeTodo, all_files>>
retryVars == <<attempt, attemptLog, sleeps, wres>>
loopVars == <<todo, visited, cur, twIdx, pruneTodo>>

\* push, up to the collection of the files of every project and the second
\* get_referenced_projects call, whose ConfigurationError starts the fallback.
PushStart ==
    /\ pc \in {"idle", "done", "failed"}
    /\ run < MaxRuns
    /\ \E arg \in ProjectNames \cup {NoPath} :
         LET path == IF arg = NoPath THEN get_active_project(config_dir).project_path ELSE arg
         IN  /\ path # NoPath
             /\ path \in config_dir.project_json
             /\ HasProjectId(config_dir, path)
             /\ project' = [project_path |-> path, project_id |-> get_project_id(config_dir, path)]
             /\ last_command' = Command("push", path, get_project_id(config_dir, path), TRUE)
    /\ run' = run + 1
    /\ prev' = IF pc = "idle" THEN "none"
               ELSE IF pc = "done" /\ mode = "main" THEN "done" ELSE "failed"
    /\ mode' = "main"
    /\ files_by_project' = get_all_project_files
    /\ mergeTodo' = ResolvedOrder
    /\ all_files' = EmptyMap
    /\ remote_files' = <<>> /\ remote_files_to_delete' = {} /\ synced_files' = {}
    /\ todo' = {} /\ visited' = <<>> /\ cur' = "" /\ twIdx' = 0 /\ pruneTodo' = {}
    /\ attempt' = 0 /\ attemptLog' = <<>> /\ sleeps' = 0 /\ wres' = "none"
    /\ calls' = <<>>
    /\ resolved' = get_referenced_projects
    /\ IF get_referenced_projects.raised
       THEN /\ err' = "configuration" /\ errBy' = "get_referenced_projects"
            /\ pc' = OnRaise("main")
       ELSE /\ err' = "none" /\ errBy' = "none"
            /\ pc' = "merge"
    /\ UNCHANGED <<fs, mtime, remote, nextUuid, config, references, collectVars, managerVars,
                   reference_paths, packVars, utime_fails, sessionVars, config_dir, created>>

\* push: "Process referenced project files first", one project of the loop.
MergeRef ==
    /\ pc = "merge" /\ mergeTodo # <<>>
    /\ all_files' = AddProjectFiles(all_files, files_by_project[Head(mergeTodo)], Head(mergeTodo))
    /\ mergeTodo' = Tail(mergeTodo)
    /\ UNCHANGED <<fs, mtime, remote, nextUuid, envVars, run, prev, mode, pc,
                   files_by_project, remote_files, remote_files_to_delete,
                   synced_files, loopVars, retryVars, err, errBy, calls>>

\* push: "Add main project files last".
MergeMain ==
    /\ pc = "merge" /\ mergeTodo = <<>>
    /\ all_files' = AddProjectFiles(all_files, files_by_project["main"], "main")
    /\ pc' = "list"
    /\ UNCHANGED <<fs, mtime, remote, nextUuid, envVars, run, prev, mode,
                   files_by_project, mergeTodo, remote_files, remote_files_to_delete,
                   synced_files, loopVars, retryVars, err, errBy, calls>>

\* Mutant: only the names with a single record are candidates.
SeedCandidatesUnique(rfs) ==
    {n \in FileNames(rfs) : Cardinality({i \in 1..Len(rfs) : rfs[i].file_name = n}) = 1}

\* _sync_without_compression: set(rf["file_name"] for rf in remote_files)
SeedCandidates(rfs) == FileNames(rfs)

\* set.remove(name) raises KeyError when the name is not in the set.
RemoveRaises(cands, name) == name \notin cands

\* push: provider.list_files, set_active_project, SyncManager(...), sync(): the
\* project is made the active one (try block only), the tracking is reset
\* and _sync_without_compression seeds the candidates from the listing.
ListFiles ==
    /\ pc = "list"
    /\ \E o \in CallOutcomes :
        IF o = "ok"
        THEN /\ remote_files' = remote
             /\ remote_files_to_delete' = SeedCandidates(remote)
             /\ synced_files' = NewTracking(synced_files)
             /\ todo' = DOMAIN all_files
             /\ visited' = <<>>
             /\ calls' = <<>>
             /\ err' = "none" /\ errBy' = "none"
             /\ twIdx' = 1
             /\ pc' = "local"
             /\ config_dir' = IF mode = "main"
                              THEN set_active_project(config_dir, project.project_path,
                                                      project.project_id)
                              ELSE config_dir
             /\ UNCHANGED <<cur, pruneTodo>>
        ELSE /\ err' = o /\ errBy' = "list_files"
             /\ pc' = OnRaise(mode)
             /\ UNCHANGED <<remote_files, remote_files_to_delete, synced_files,
                            loopVars, calls, config_dir>>
    /\ UNCHANGED <<fs, mtime, remote, nextUuid, confVars, created, last_command, project,
                   run, prev, mode, pushVars, retryVars>>

\* push: the except block reports the error, collects with get_local_files
\* and lists again for a new SyncManager; nothing of the failed sync is kept.
Fallback ==
    /\ pc = "fallback"
    /\ mode' = "fallback"
    /\ all_files' = get_local_files
    /\ remote_files' = <<>> /\ remote_files_to_delete' = {} /\ synced_files' = {}
    /\ todo' = {} /\ visited' = <<>> /\ cur' = "" /\ twIdx' = 0 /\ pruneTodo' = {}
    /\ attempt' = 0 /\ attemptLog' = <<>> /\ sleeps' = 0 /\ wres' = "none"
    /\ err' = "none" /\ errBy' = "none" /\ calls' = <<>>
    /\ pc' = "list"
    /\ UNCHANGED <<fs, mtime, remote, nextUuid, envVars, run, prev,
                   files_by_project, mergeTodo>>

\* _sync_without_compression: file_info.get('hash') on a FileInfo raises
\* AttributeError.
LocalAttributeError ==
    /\ pc = "local"
    /\ \E f \in todo :
        /\ all_files[f].type # "str" /\ ~HasGet(all_files[f])
        /\ visited' = Append(visited, f)
        /\ todo' = todo \ {f}
    /\ err' = "attribute" /\ errBy' = "local_hash"
    /\ pc' = OnRaise(mode)
    /\ UNCHANGED <<fs, mtime, remote, nextUuid, envVars, run, prev, mode, pushVars,
                   remote_files, remote_files_to_delete, synced_files, cur, twIdx,
                   pruneTodo, retryVars, calls>>

\* update_existing_file up to the delete: the remote file of the same name is
\* deleted when the hashes differ, else the name leaves the candidates.
UpdateExisting ==
    /\ pc = "local"
    /\ \E f \in todo :
        LET info == all_files[f]
            rf == FirstMatch(remote_files, f)
        IN  /\ info.type = "str" \/ HasGet(info)
            /\ rf # NoRec
            /\ visited' = Append(visited, f)
            /\ todo' = todo \ {f}
            /\ IF PyNotEqual(local_hash(info), PyStr(compute_md5_hash(rf.content)))
               THEN \E o \in CallOutcomes :
                    /\ calls' = Append(calls, Ev("delete", f, rf.uuid, rf.content, "update", o))
                    /\ IF o = "ok"
                       THEN /\ remote' = ProviderDelete(remote, rf.uuid)
                            /\ cur' = f
                            /\ pc' = "update_upload"
                            /\ UNCHANGED <<err, errBy>>
                       ELSE /\ err' = o /\ errBy' = "update_delete"
                            /\ pc' = OnRaise(mode)
                            /\ UNCHANGED <<remote, cur>>
                    /\ UNCHANGED remote_files_to_delete
               ELSE /\ IF RemoveRaises(remote_files_to_delete, f)
                       THEN /\ err' = "keyerror" /\ errBy' = "remove_candidate"
                            /\ pc' = OnRaise(mode)
                            /\ UNCHANGED remote_files_to_delete
                       ELSE /\ remote_files_to_delete' =
                                  RemoveCandidate(remote_files_to_delete, f)
                            /\ UNCHANGED <<pc, err, errBy>>
                    /\ UNCHANGED <<remote, cur, calls>>
    /\ UNCHANGED <<fs, mtime, nextUuid, envVars, run, prev, mode, pushVars,
                   remote_files, synced_files, twIdx, pruneTodo, retryVars>>

\* Mutant: the name leaves the candidates although the update failed.
AfterFailedUpdateRemoved(cands, name) == cands \ {name}

\* update_existing_file: the 'raise' of the except block leaves the function
\* before remote_files_to_delete.remove is reached.
AfterFailedUpdate(cands, name) == cands

UploadOutcomes == CallOutcomes \cup {"oserror"}

\* update_existing_file after the delete: read the file under its root,
\* upload it, record it as synced, take the name out of the candidates.
UpdateUpload ==
    /\ pc = "update_upload"
    /\ LET f == cur
           content == fs[file_root(all_files[f])][f]
       IN \E o \in UploadOutcomes :
            IF o = "oserror" \/ content = NoFile
            THEN /\ err' = "oserror" /\ errBy' = "update_read"
                 /\ pc' = Reraise(mode)
                 /\ remote_files_to_delete' = AfterFailedUpdate(remote_files_to_delete, f)
                 /\ UNCHANGED <<remote, nextUuid, synced_files, calls>>
            ELSE /\ calls' = Append(calls, Ev("upload", f, nextUuid, content, "update", o))
                 /\ IF o = "ok"
                    THEN /\ remote' = ProviderUpload(remote, f, content, nextUuid)
                         /\ nextUuid' = nextUuid + 1
                         /\ synced_files' = MarkSynced(synced_files, f)
                         /\ IF RemoveRaises(remote_files_to_delete, f)
                            THEN /\ err' = "keyerror" /\ errBy' = "remove_candidate"
                                 /\ pc' = OnRaise(mode)
                                 /\ UNCHANGED remote_files_to_delete
                            ELSE /\ remote_files_to_delete' =
                                       RemoveCandidate(remote_files_to_delete, f)
                                 /\ pc' = "local"
                                 /\ UNCHANGED <<err, errBy>>
                    ELSE /\ err' = o /\ errBy' = "update_upload"
                         /\ pc' = Reraise(mode)
                         /\ remote_files_to_delete' =
                               AfterFailedUpdate(remote_files_to_delete, f)
                         /\ UNCHANGED <<remote, nextUuid, synced_files>>
    /\ UNCHANGED <<fs, mtime, envVars, run, prev, mode, pushVars, remote_files,
                   loopVars, retryVars>>

\* upload_new_file: no remote file has the name.
UploadNew ==
    /\ pc = "local"
    /\ \E f \in todo :
        LET info == all_files[f]
            content == fs[file_root(info)][f]
        IN  /\ info.type = "str" \/ HasGet(info)
            /\ FirstMatch(remote_files, f) = NoRec
            /\ visited' = Append(visited, f)
            /\ todo' = todo \ {f}
            /\ \E o \in UploadOutcomes :
                IF o = "oserror" \/ content = NoFile
                THEN /\ err' = "oserror" /\ errBy' = "new_read"
                     /\ pc' = Reraise(mode)
                     /\ UNCHANGED <<remote, nextUuid, synced_files, calls>>
                ELSE /\ calls' = Append(calls, Ev("upload", f, nextUuid, content, "new", o))
                     /\ IF o = "ok"
                        THEN /\ remote' = ProviderUpload(remote, f, content, nextUuid)
                             /\ nextUuid' = nextUuid + 1
                             /\ synced_files' = MarkSynced(synced_files, f)
                             /\ UNCHANGED <<pc, err, errBy>>
                        ELSE /\ err' = o /\ errBy' = "new_upload"
                             /\ pc' = Reraise(mode)
                             /\ UNCHANGED <<remote, nextUuid, synced_files>>
    /\ UNCHANGED <<fs, mtime, envVars, run, prev, mode, pushVars, remote_files,
                   remote_files_to_delete, cur, twIdx, pruneTodo, retryVars>>

\* Mutant: pruning runs before the two-way pass.
SyncOrderPruneFirst == <<"local", "prune", "twoway">>

\* _sync_without_compression: the passes in the order of the code; the
\* two-way pass runs only when two_way_sync is set.
SyncOrder == <<"local", "twoway", "prune">>

NextPhase(ph) ==
    LET i == CHOOSE k \in 1..Len(SyncOrder) : SyncOrder[k] = ph
        later == {k \in (i + 1)..Len(SyncOrder) :
                    SyncOrder[k] = "twoway" => config.two_way_sync}
    IN  IF later = {} THEN "done" ELSE SyncOrder[Min(later)]

\* Index of the last record of the listing with the name, 0 if there is none.
LastIndex(rfs, name) ==
    LET I == {i \in 1..Len(rfs) : rfs[i].file_name = name}
    IN  IF I = {} THEN 0 ELSE CHOOSE k \in I : \A j \in I : j <= k

\* self.synced_files as update_local_timestamps finds it: sync sets the
\* attribute to {} and nothing assigns it after that; the set the upload
\* actions fill is the local variable synced_files.
SelfSyncedFiles == EmptyMap

\* update_local_timestamps: the root the path of a file is joined to, the
\* root_path of the file's entry in self.synced_files if the entry is a dict,
\* else self.local_path.
TimestampRoot(file_name) ==
    IF file_name \in DOMAIN SelfSyncedFiles
    THEN SelfSyncedFiles[file_name].root_path
    ELSE "main"

\* update_local_timestamps, called when the local->remote loop is over:
\* self.synced_files is empty, so every path is resolved under local_path;
\* the listing is the one fetched before the sync; an OSError of os.utime is
\* logged and the loop goes on.
LocalDone ==
    /\ pc = "local" /\ todo = {}
    /\ mtime' = [r \in Roots |-> [p \in Paths |->
                      IF /\ LastIndex(remote_files, p) # 0
                         /\ p \in synced_files
                         /\ r = TimestampRoot(p)
                         /\ fs[r][p] # NoFile
                         /\ p \notin utime_fails
                      THEN remote_files[LastIndex(remote_files, p)].created_at
                      ELSE mtime[r][p]]]
    /\ pc' = NextPhase("local")
    /\ UNCHANGED <<fs, remote, nextUuid, envVars, run, prev, mode, pushVars,
                   remote_files, remote_files_to_delete, synced_files, loopVars,
                   retryVars, err, errBy, calls>>

\* Mutant: the two-way pass takes no file for synced.
AlreadySyncedNever(file_name, synced) == FALSE

\* sync_remote_to_local: the test 'file_name not in synced_files', negated
AlreadySynced(file_name, synced) == file_name \in synced

\* sync_remote_to_local for one record of the listing: a file not synced in
\* this run is written under local_path; an error of the write is logged and
\* swallowed, and the file is not recorded as synced.
TwoWayFile ==
    /\ pc = "twoway" /\ twIdx <= Len(remote_files)
    /\ LET rf == remote_files[twIdx]
       IN  IF ~AlreadySynced(rf.file_name, synced_files)
           THEN \E o \in {"ok", "oserror"} :
                  /\ calls' = Append(calls, Ev("write", rf.file_name, rf.uuid,
                                               rf.content, "twoway", o))
                  /\ IF o = "ok"
                     THEN /\ fs' = [fs EXCEPT !["main"][rf.file_name] = rf.content]
                          /\ mtime' = [mtime EXCEPT !["main"][rf.file_name] = rf.created_at]
                          /\ synced_files' = MarkSynced(synced_files, rf.file_name)
                     ELSE UNCHANGED <<fs, mtime, synced_files>>
           ELSE UNCHANGED <<fs, mtime, synced_files, calls>>
    /\ twIdx' = twIdx + 1
    /\ UNCHANGED <<remote, nextUuid, envVars, run, prev, mode, pc, pushVars,
                   remote_files, remote_files_to_delete, todo, visited, cur,
                   pruneTodo, retryVars, err, errBy>>

TwoWayDone ==
    /\ pc = "twoway" /\ twIdx > Len(remote_files)
    /\ pc' = NextPhase("twoway")
    /\ UNCHANGED <<fs, mtime, remote, nextUuid, envVars, run, prev, mode, pushVars,
                   remote_files, remote_files_to_delete, synced_files, loopVars,
                   retryVars, err, errBy, calls>>

\* prune_remote_files: returns at once unless prune_remote_files is set, else
\* iterates a copy of the candidate set.
PruneStart ==
    /\ pc = "prune"
    /\ IF config.prune_remote_files
       THEN /\ pruneTodo' = remote_files_to_delete
            /\ pc' = "pruning"
       ELSE /\ pc' = NextPhase("prune")
            /\ UNCHANGED pruneTodo
    /\ UNCHANGED <<fs, mtime, remote, nextUuid, envVars, run, prev, mode, pushVars,
                   remote_files, remote_files_to_delete, synced_files, todo, visited,
                   cur, twIdx, retryVars, err, errBy, calls>>

\* prune_remote_files: the next candidate; the wrapper of delete_remote_files
\* starts its loop.
PruneNext ==
    /\ pc = "pruning" /\ pruneTodo # {}
    /\ \E n \in pruneTodo :
        /\ cur' = n
        /\ pruneTodo' = pruneTodo \ {n}
    /\ attempt' = 0 /\ attemptLog' = <<>> /\ sleeps' = 0 /\ wres' = "running"
    /\ pc' = "retry"
    /\ UNCHANGED <<fs, mtime, remote, nextUuid, envVars, run, prev, mode, pushVars,
                   remote_files, remote_files_to_delete, synced_files, todo, visited,
                   twIdx, err, errBy, calls>>

\* retry_on_403 around delete_remote_files: one pass of the wrapper's loop.
\* The call returns, or the wrapper sleeps and loops, or the error is raised;
\* when the loop runs out the wrapper returns None.
DeleteAttempt ==
    /\ pc = "retry" /\ attempt < max_retries
    /\ LET rf == FirstMatch(remote_files, cur)
       IN  IF rf = NoRec
           THEN /\ wres' = "stop_iteration"
                /\ pc' = CatchStopIteration(mode)
                /\ UNCHANGED <<remote, attempt, attemptLog, sleeps, err, errBy, calls>>
           ELSE \E o \in CallOutcomes :
                /\ calls' = Append(calls, Ev("delete", cur, rf.uuid, rf.content, "prune", o))
                /\ attemptLog' = Append(attemptLog, o)
                /\ IF o = "ok"
                   THEN /\ remote' = ProviderDelete(remote, rf.uuid)
                        /\ wres' = "returned"
                        /\ pc' = "pruning"
                        /\ UNCHANGED <<attempt, sleeps, err, errBy>>
                   ELSE IF ShouldRetry(o, attempt)
                   THEN /\ sleeps' = sleeps + 1
                        /\ attempt' = attempt + 1
                        /\ IF attempt + 1 < max_retries
                           THEN UNCHANGED <<wres, pc>>
                           ELSE wres' = "returned_none" /\ pc' = "pruning"
                        /\ UNCHANGED <<remote, err, errBy>>
                   ELSE /\ wres' = "raised"
                        /\ err' = o /\ errBy' = "prune_delete"
                        /\ pc' = OnRaise(mode)
                        /\ UNCHANGED <<remote, attempt, sleeps>>
    /\ UNCHANGED <<fs, mtime, nextUuid, envVars, run, prev, mode, pushVars,
                   remote_files, remote_files_to_delete, synced_files, loopVars>>

PruneDone ==
    /\ pc = "pruning" /\ pruneTodo = {}
    /\ pc' = NextPhase("prune")
    /\ UNCHANGED <<fs, mtime, remote, nextUuid, envVars, run, prev, mode, pushVars,
                   remote_files, remote_files_to_delete, synced_files, loopVars,
                   retryVars, err, errBy, calls>>

Next ==
    \/ PushStart
    \/ MergeRef
    \/ MergeMain
    \/ ListFiles
    \/ Fallback
    \/ LocalAttributeError
    \/ UpdateExisting
    \/ UpdateUpload
    \/ UploadNew
    \/ LocalDone
    \/ TwoWayFile
    \/ TwoWayDone
    \/ PruneStart
    \/ PruneNext
    \/ DeleteAttempt
    \/ PruneDone

Spec == Init /\ [][Next]_vars

\* The merge of push alone: two referenced projects in either order.
InitMerge ==
    /\ fs \in [Roots -> [Paths -> Contents \cup {NoFile}]]
    /\ references \in {<<>>, <<"ref1">>, <<"ref2">>, <<"ref1", "ref2">>, <<"ref2", "ref1">>}
    /\ remote = <<>> /\ nextUuid = 1
    /\ config = [two_way_sync |-> FALSE, prune_remote_files |-> FALSE]
    /\ reference_paths = [r \in RefIds |-> "ok"]
    /\ resolved = NoResolution
    /\ SyncState
    /\ NoSession
    /\ UtimeWorks
    /\ OneActiveProject
    /\ NoCollection
    /\ IdleManager

NextMerge ==
    \/ PushStart
    \/ MergeRef
    \/ MergeMain

SpecMerge == InitMerge /\ [][NextMerge]_vars

\* One SyncManager whose sync is called again and again for a project without
\* references; os.utime may fail for a path. push's except block is not part
\* of it.
InitSync ==
    /\ fs \in {f \in [Roots -> [Paths -> {"c1", NoFile}]] :
                 \A r \in RefIds : \A p \in Paths : f[r][p] = NoFile}
    /\ references = <<>>
    /\ \E s \in InitRemotes : remote = MkRemote(s) /\ nextUuid = Len(s) + 1
    /\ config \in [two_way_sync : BOOLEAN, prune_remote_files : BOOLEAN]
    /\ reference_paths = [r \in RefIds |-> NoMapping]
    /\ resolved = NoResolution
    /\ utime_fails \in {{}, {"a"}}
    /\ SyncState
    /\ NoSession
    /\ OneActiveProject
    /\ NoCollection
    /\ IdleManager

\* sync(local_files, remote_files) of the SyncManager that has completed a
\* sync, with the same local set and a listing fetched anew; the instance
\* keeps its attributes.
SyncAgain ==
    /\ pc = "done"
    /\ run < MaxRuns
    /\ run' = run + 1
    /\ pc' = "list"
    /\ UNCHANGED <<fs, mtime, remote, nextUuid, envVars, prev, mode, pushVars,
                   remote_files, remote_files_to_delete, synced_files, loopVars,
                   retryVars, err, errBy, calls>>

NextSync ==
    \/ PushStart
    \/ MergeMain
    \/ ListFiles
    \/ UpdateExisting
    \/ UpdateUpload
    \/ UploadNew
    \/ LocalDone
    \/ TwoWayFile
    \/ TwoWayDone
    \/ PruneStart
    \/ PruneNext
    \/ DeleteAttempt
    \/ PruneDone
    \/ SyncAgain

SpecSync == InitSync /\ [][NextSync]_vars

\* The commands that write .claudesync: any project files to start with, no
\* local and no remote file.
InitProject ==
    /\ \E ids \in [ProjectNames -> {NoId, EmptyId, ProjectUuid(0)}] :
       \E jsons \in SUBSET ProjectNames :
       \E act \in {NoProject} \cup {[project_path |-> n, project_id |-> ids[n]] :
                                      n \in {m \in ProjectNames : ids[m] # NoId}} :
          config_dir = [project_id |-> ids, project_json |-> jsons, active_project |-> act]
    /\ created = 0
    /\ last_command = NoCommand
    /\ project = NoProject
    /\ fs = [r \in Roots |-> [p \in Paths |-> NoFile]]
    /\ references = <<>>
    /\ remote = <<>> /\ nextUuid = 1
    /\ config = [two_way_sync |-> FALSE, prune_remote_files |-> FALSE]
    /\ reference_paths = [r \in RefIds |-> NoMapping]
    /\ resolved = NoResolution
    /\ SyncState
    /\ NoSession
    /\ UtimeWorks
    /\ NoCollection
    /\ IdleManager

BetweenCommands == pc \in {"idle", "done", "failed"}

otherThanDir == <<fs, mtime, remote, nextUuid, confVars, project, run, prev, mode, pc,
                  pushVars, remote_files, remote_files_to_delete, synced_files,
                  loopVars, retryVars, err, errBy, calls>>

\* project create: the provider creates the project; _create_local_configuration
\* writes <name>.project_id.json and <name>.project.json and sets the active
\* project. Nothing is written if the provider fails.
ProjectCreate ==
    /\ BetweenCommands
    /\ created < MaxCreated
    /\ \E internal_name \in ProjectNames : \E o \in {"ok", "provider"} :
         IF o = "ok"
         THEN LET uuid == ProjectUuid(created + 1)
                  written_dir == [config_dir EXCEPT !.project_id[internal_name] = uuid,
                                                    !.project_json = @ \cup {internal_name}]
              IN  /\ created' = created + 1
                  /\ config_dir' = set_active_project(written_dir, internal_name, uuid)
                  /\ last_command' = Command("create", internal_name, uuid, TRUE)
         ELSE /\ last_command' = Command("create", internal_name, NoId, FALSE)
              /\ UNCHANGED <<config_dir, created>>
    /\ UNCHANGED otherThanDir

\* project set PROJECT_PATH: a ConfigurationError of get_project_id is
\* reported and nothing is written.
ProjectSet ==
    /\ BetweenCommands
    /\ \E project_path \in ProjectNames :
         IF HasProjectId(config_dir, project_path)
         THEN LET project_id == get_project_id(config_dir, project_path)
              IN  /\ config_dir' = set_active_project(config_dir, project_path, project_id)
                  /\ last_command' = Command("set", project_path, project_id, TRUE)
         ELSE /\ last_command' = Command("set", project_path, NoId, FALSE)
              /\ UNCHANGED config_dir
    /\ UNCHANGED <<created, otherThanDir>>

\* POST /api/set-active-project of the simulate server, which runs next to
\* the commands: a missing path, an unknown project and an empty project id
\* are answered with an error and nothing is written.
PostSetActiveProject ==
    /\ \E project_path \in ProjectNames \cup {NoPath} :
         IF /\ project_path # NoPath
            /\ HasProjectId(config_dir, project_path)
            /\ get_project_id(config_dir, project_path) # EmptyId
         THEN LET project_id == get_project_id(config_dir, project_path)
              IN  /\ config_dir' = set_active_project(config_dir, project_path, project_id)
                  /\ last_command' = Command("post", project_path, project_id, TRUE)
         ELSE /\ last_command' = Command("post", project_path, NoId, FALSE)
              /\ UNCHANGED config_dir
    /\ UNCHANGED <<created, otherThanDir>>

NextProject ==
    \/ ProjectCreate
    \/ ProjectSet
    \/ PostSetActiveProject
    \/ PushStart
    \/ MergeMain
    \/ ListFiles
    \/ Fallback
    \/ LocalDone
    \/ PruneStart

SpecProject == InitProject /\ [][NextProject]_vars

\* The session key: no key file or one without a key to start with; the
\* clock runs.
InitSession ==
    /\ now = 0
    /\ key_file \in {NoKeyFile, [NoKeyFile EXCEPT !.exists = TRUE]}
    /\ session_set = NoneNone
    /\ session_result = NoResult
    /\ fs = [r \in Roots |-> [p \in Paths |-> NoFile]]
    /\ references = <<>>
    /\ remote = <<>> /\ nextUuid = 1
    /\ config = [two_way_sync |-> FALSE, prune_remote_files |-> FALSE]
    /\ reference_paths = [r \in RefIds |-> NoMapping]
    /\ resolved = NoResolution
    /\ SyncState
    /\ UtimeWorks
    /\ OneActiveProject
    /\ NoCollection
    /\ IdleManager

otherThanSession == <<fs, mtime, remote, nextUuid, config, references, collectVars, managerVars,
                      reference_paths, resolved, packVars, utime_fails, dirVars, project,
                      run, prev, mode, pc, pushVars, remote_files, remote_files_to_delete,
                      synced_files, loopVars, retryVars, err, errBy, calls>>

\* set_session_key(session_key, expiry): the key file is written anew; a
\* RuntimeError of the encryption is raised and nothing is written.
SetSessionKey ==
    /\ \E session_key \in SessionKeys : \E expiry \in 0..MaxTime : \E o \in {"ok", "runtime"} :
         IF o = "ok"
         THEN /\ key_file' = [exists |-> TRUE,
                              session_key |-> encrypt_session_key(session_key).encrypted,
                              session_key_encryption_method |->
                                  encrypt_session_key(session_key).method,
                              session_key_expiry |-> isoformat(expiry)]
              /\ session_set' = [session_key |-> session_key, expiry |-> expiry]
         ELSE UNCHANGED <<key_file, session_set>>
    /\ session_result' = NoResult
    /\ UNCHANGED <<now, otherThanSession>>

\* get_session_key()
GetSessionKey ==
    /\ session_result' = get_session_key(key_file, now)
    /\ UNCHANGED <<now, key_file, session_set, otherThanSession>>

\* clear_all_session_keys(): every *.key file of ~/.claudesync is removed.
ClearAllSessionKeys ==
    /\ key_file' = NoKeyFile
    /\ session_set' = NoneNone
    /\ session_result' = NoResult
    /\ UNCHANGED <<now, otherThanSession>>

\* Time passes.
Tick ==
    /\ now < MaxTime
    /\ now' = now + 1
    /\ session_result' = NoResult
    /\ UNCHANGED <<key_file, session_set, otherThanSession>>

NextSession ==
    \/ SetSessionKey
    \/ GetSessionKey
    \/ ClearAllSessionKeys
    \/ Tick

SpecSession == InitSession /\ [][NextSession]_vars

\* The files a.py can be: every size around the limits with every content,
\* a file that cannot be opened, a file that cannot be stat'ed.
FileVariants ==
    {f \in [size : FileSizes, nul : {"none", "sample", "later"}, utf8 : BOOLEAN,
            readable : BOOLEAN, stat : BOOLEAN] :
        /\ f.nul = "later" => f.size > SampleSize
        /\ ~f.readable => f.stat /\ f.nul = "none" /\ f.utf8
        /\ ~f.stat => f = [PlainFile EXCEPT !.stat = FALSE]}

\* The collection of one project's files: any tree, any configuration; a key
\* that is set has a value other than its default.
InitCollect ==
    /\ \E a \in FileVariants \cup {Absent} :
       \E rest \in [TreePaths \ {<<APy>>, <<SrcDir, BTxt>>} -> {PlainFile, Absent}] :
          tree = [q \in TreePaths |-> IF q = <<APy>> THEN a
                                      ELSE IF q = <<SrcDir, BTxt>> THEN Absent
                                      ELSE rest[q]]
    /\ \E keys \in SUBSET ConfigKeys :
       \E inc \in {<<>>, <<PatStar>>, <<PatPy>>, <<PatSrcPy>>, <<PatSrcPy, PatStar>>} :
       \E roots \in {<<>>, <<SrcDir>>, <<GitDir>>} :
          files_config =
            [keys |-> keys,
             includes |-> IF "includes" \in keys THEN inc ELSE <<>>,
             excludes |-> IF "excludes" \in keys THEN <<PatTxt>> ELSE <<>>,
             push_roots |-> IF "push_roots" \in keys THEN roots ELSE <<>>,
             max_file_size |-> IF "max_file_size" \in keys THEN ScenarioSize ELSE 0,
             use_ignore_files |-> "use_ignore_files" \notin keys]
    /\ ignore_files \in [gitignore : {<<>>, <<PatPy>>}, claudeignore : {<<>>, <<PatSrc>>}]
    /\ collected = {}
    /\ nested = NoNested
    /\ text_files = EmptyMap /\ packed_content = <<>> /\ written = <<>>
    /\ fs = [r \in Roots |-> [p \in Paths |-> NoFile]]
    /\ references = <<>>
    /\ reference_paths = [r \in RefIds |-> NoMapping]
    /\ resolved = NoResolution
    /\ remote = <<>> /\ nextUuid = 1
    /\ config = [two_way_sync |-> FALSE, prune_remote_files |-> FALSE]
    /\ SyncState
    /\ NoSession
    /\ UtimeWorks
    /\ OneActiveProject
    /\ IdleManager

\* get_local_files: the files of the project are collected.
Collect ==
    /\ pc = "idle"
    /\ LET escaped == ExceptContinue(Raising(tree, files_config, ignore_files))
       IN IF escaped = {}
          THEN /\ collected' = CollectProjectFiles(tree, files_config, ignore_files)
               /\ pc' = "collected"
          ELSE /\ collected' = {}
               /\ pc' = "collect_raised"
    /\ UNCHANGED <<fs, mtime, remote, nextUuid, config, references, tree, files_config,
                   ignore_files, nested, managerVars,
                   reference_paths, resolved, packVars, utime_fails, sessionVars, dirVars, project,
                   run, prev, mode, pushVars, remote_files, remote_files_to_delete,
                   synced_files, loopVars, retryVars, err, errBy, calls>>

NextCollect == Collect

SpecCollect == InitCollect /\ [][NextCollect]_vars

\* The files of a tree with faults: sound, missing, not to be stat'ed, not to
\* be opened, not UTF-8.
FaultKinds ==
    {PlainFile, Absent,
     [PlainFile EXCEPT !.stat = FALSE],
     [PlainFile EXCEPT !.readable = FALSE],
     [PlainFile EXCEPT !.utf8 = FALSE]}

\* The collection of a tree with faults: any fault in any file, push roots
\* that exist or not, given or derived from the include patterns.
InitFaults ==
    /\ tree \in [TreePaths -> FaultKinds]
    /\ \E roots \in {<<>>, <<SrcDir>>, <<LibDir, SrcDir>>, <<SrcDir, LibDir>>} :
       \E inc \in {<<PatStar>>, <<PatPy, PatSrcPy>>} :
          files_config =
            [keys |-> (IF roots = <<>> THEN {} ELSE {"push_roots"})
                        \cup (IF inc = <<PatStar>> THEN {} ELSE {"includes"}),
             includes |-> IF inc = <<PatStar>> THEN <<>> ELSE inc,
             excludes |-> <<>>,
             push_roots |-> roots,
             max_file_size |-> 0,
             use_ignore_files |-> TRUE]
    /\ ignore_files = NoIgnoreFiles
    /\ collected = {}
    /\ nested = NoNested
    /\ text_files = EmptyMap /\ packed_content = <<>> /\ written = <<>>
    /\ fs = [r \in Roots |-> [p \in Paths |-> NoFile]]
    /\ references = <<>>
    /\ reference_paths = [r \in RefIds |-> NoMapping]
    /\ resolved = NoResolution
    /\ remote = <<>> /\ nextUuid = 1
    /\ config = [two_way_sync |-> FALSE, prune_remote_files |-> FALSE]
    /\ SyncState
    /\ NoSession
    /\ UtimeWorks
    /\ OneActiveProject
    /\ IdleManager

SpecFaults == InitFaults /\ [][NextCollect]_vars

\* ------------------------------------ the compressed strategy (syncmanager.py)
PackedPrefix == "claudesync_packed_"
Stamps == 1..2                  \* the seconds datetime.now() can show

\* f"claudesync_packed_{datetime.now().strftime('%Y%m%d%H%M%S')}.dat"
PackedName(t) == <<PackedPrefix, t, ".dat">>

\* A remote file that is no packed artifact.
OtherName == <<"notes.md">>

\* file_name.startswith("claudesync_packed_")
IsPacked(name) == name[1] = PackedPrefix

\* compress_content, decompress_content: the stream in an envelope.
compress_content(packed) == <<"compressed", packed>>
decompress_content(compressed) == compressed[2]

\* [rf for rf in remote_files if rf["file_name"].startswith("claudesync_packed_")]
PackedOf(rfs) == SelectSeq(rfs, LAMBDA r : IsPacked(r.file_name))

\* max(compressed_files, key=lambda x: x["file_name"]): the first of the
\* records with the greatest name.
LatestPacked(rfs) ==
    LET P == PackedOf(rfs)
        top == CHOOSE t \in {P[i].file_name[2] : i \in 1..Len(P)} :
                  \A i \in 1..Len(P) : P[i].file_name[2] <= t
    IN  P[Min({i \in 1..Len(P) : P[i].file_name[2] = top})]

\* Mutant: the old artifacts are cleaned up before the upload.
CompressedOrderCleanupFirst == <<"z_cleanup", "z_upload", "z_download">>

\* _sync_with_compression: the steps after the packing in the order of the
\* code; the download runs only when two_way_sync is set.
CompressedOrder == <<"z_upload", "z_download", "z_cleanup">>

StepsFrom(i) ==
    {k \in i..Len(CompressedOrder) : CompressedOrder[k] = "z_download" => config.two_way_sync}

FirstStep == CompressedOrder[Min(StepsFrom(1))]

NextStep(ph) ==
    LET i == CHOOSE k \in 1..Len(CompressedOrder) : CompressedOrder[k] = ph
    IN  IF StepsFrom(i + 1) = {} THEN "done" ELSE CompressedOrder[Min(StepsFrom(i + 1))]

\* The variables no step of the compressed strategy changes.
compressedKeeps == <<fs, mtime, config, references, collectVars, managerVars, reference_paths, resolved,
                     text_files, utime_fails, sessionVars, dirVars, project, run, prev,
                     mode, pushVars, remote_files_to_delete, todo, visited, cur, pruneTodo>>

\* A remote project with packed artifacts of earlier syncs and other files;
\* the local files; the second the clock shows.
InitCompressed ==
    /\ \E D \in SUBSET Paths : text_files \in [D -> {<<>>, <<"x">>}]
    /\ \E s \in SeqsUpTo({PackedName(t) : t \in Stamps} \cup {OtherName}, MaxRemote) :
         /\ remote = [i \in 1..Len(s) |->
                        [file_name |-> s[i], uuid |-> i,
                         content |-> compress_content(pack_files([p \in {"a"} |-> <<"x">>])),
                         created_at |-> i]]
         /\ nextUuid = Len(s) + 1
    /\ now \in Stamps
    /\ config \in [two_way_sync : BOOLEAN, prune_remote_files : {FALSE}]
    /\ key_file = NoKeyFile /\ session_set = NoneNone /\ session_result = NoResult
    /\ packed_content = <<>> /\ written = <<>>
    /\ tree = [q \in TreePaths |-> Absent]
    /\ files_config = [keys |-> {}, includes |-> <<>>, excludes |-> <<>>,
                       push_roots |-> <<>>, max_file_size |-> 0,
                       use_ignore_files |-> TRUE]
    /\ ignore_files = NoIgnoreFiles
    /\ collected = {}
    /\ nested = NoNested
    /\ fs = [r \in Roots |-> [p \in Paths |-> NoFile]]
    /\ references = <<>>
    /\ reference_paths = [r \in RefIds |-> NoMapping]
    /\ resolved = NoResolution
    /\ SyncState
    /\ UtimeWorks
    /\ OneActiveProject
    /\ IdleManager

\* sync(local_files, remote_files) with a compression algorithm, called with
\* the listing just fetched: the tracking is reset and _pack_files reads
\* every local file; an error of a read leaves the sync.
CompressedStart ==
    /\ pc = "idle"
    /\ remote_files' = remote
    /\ synced_files' = NewTracking(synced_files)
    /\ calls' = <<>>
    /\ twIdx' = 1
    /\ attempt' = 0 /\ attemptLog' = <<>> /\ sleeps' = 0 /\ wres' = "running"
    /\ \E o \in {"ok", "oserror"} :
         IF o = "ok"
         THEN /\ packed_content' = pack_files(text_files)
              /\ pc' = FirstStep
              /\ UNCHANGED <<err, errBy>>
         ELSE /\ err' = o /\ errBy' = "pack"
              /\ pc' = "failed"
              /\ UNCHANGED packed_content
    /\ UNCHANGED <<remote, nextUuid, written, compressedKeeps>>

\* retry_on_403 around _upload_compressed_file: one pass of the wrapper's loop.
CompressedUpload ==
    /\ pc = "z_upload" /\ attempt < max_retries
    /\ \E o \in CallOutcomes :
         /\ calls' = Append(calls, Ev("upload", PackedName(now), nextUuid,
                                      compress_content(packed_content), "compressed", o))
         /\ attemptLog' = Append(attemptLog, o)
         /\ IF o = "ok"
            THEN /\ remote' = ProviderUpload(remote, PackedName(now),
                                             compress_content(packed_content), nextUuid)
                 /\ nextUuid' = nextUuid + 1
                 /\ wres' = "returned"
                 /\ attempt' = 0 /\ sleeps' = 0
                 /\ pc' = NextStep("z_upload")
                 /\ UNCHANGED <<err, errBy>>
            ELSE IF ShouldRetry(o, attempt)
            THEN /\ sleeps' = sleeps + 1
                 /\ attempt' = attempt + 1
                 /\ UNCHANGED <<remote, nextUuid, wres, pc, err, errBy>>
            ELSE /\ wres' = "raised"
                 /\ err' = o /\ errBy' = "compressed_upload"
                 /\ pc' = "failed"
                 /\ UNCHANGED <<remote, nextUuid, attempt, sleeps>>
    /\ UNCHANGED <<packed_content, written, remote_files, synced_files, twIdx, compressedKeeps>>

\* retry_on_403 around _download_compressed_file, then decompress_content and
\* _unpack_files: the latest artifact of a new listing is written out file
\* by file; an error of a write leaves the sync with the files before it written.
CompressedDownload ==
    /\ pc = "z_download" /\ attempt < max_retries
    /\ \E o \in CallOutcomes :
         /\ calls' = Append(calls, Ev("list", OtherName, 0, <<>>, "download", o))
         /\ attemptLog' = Append(attemptLog, o)
         /\ IF o = "ok"
            THEN /\ wres' = "returned"
                 /\ attempt' = 0 /\ sleeps' = 0
                 /\ IF PackedOf(remote) = <<>>
                    THEN /\ pc' = NextStep("z_download")
                         /\ UNCHANGED <<written, err, errBy>>
                    ELSE LET writes == unpack_files(decompress_content(
                                           LatestPacked(remote).content))
                         IN  \E k \in 0..Len(writes) :
                               /\ written' = SubSeq(writes, 1, k)
                               /\ IF k = Len(writes)
                                  THEN /\ pc' = NextStep("z_download")
                                       /\ UNCHANGED <<err, errBy>>
                                  ELSE /\ err' = "oserror" /\ errBy' = "unpack"
                                       /\ pc' = "failed"
            ELSE IF ShouldRetry(o, attempt)
            THEN /\ sleeps' = sleeps + 1
                 /\ attempt' = attempt + 1
                 /\ UNCHANGED <<written, wres, pc, err, errBy>>
            ELSE /\ wres' = "raised"
                 /\ err' = o /\ errBy' = "compressed_download"
                 /\ pc' = "failed"
                 /\ UNCHANGED <<written, attempt, sleeps>>
    /\ UNCHANGED <<remote, nextUuid, packed_content, remote_files, synced_files, twIdx,
                   compressedKeeps>>

\* Mutant: the cleanup goes through the remote as it is after the upload.
CleanupListingFresh(given, fresh) == fresh

\* _cleanup_old_remote_files(remote_files): the listing sync was called with,
\* fetched before the upload.
CleanupListing(given, fresh) == given

\* _cleanup_old_remote_files: one record of the listing the sync was given;
\* delete_file is called without a wrapper and its error leaves the sync.
CleanupNext ==
    /\ pc = "z_cleanup" /\ twIdx <= Len(CleanupListing(remote_files, remote))
    /\ LET rf == CleanupListing(remote_files, remote)[twIdx]
       IN  IF IsPacked(rf.file_name)
           THEN \E o \in CallOutcomes :
                  /\ calls' = Append(calls, Ev("delete", rf.file_name, rf.uuid, rf.content,
                                               "cleanup", o))
                  /\ IF o = "ok"
                     THEN /\ remote' = ProviderDelete(remote, rf.uuid)
                          /\ twIdx' = twIdx + 1
                          /\ UNCHANGED <<pc, err, errBy>>
                     ELSE /\ err' = o /\ errBy' = "cleanup_delete"
                          /\ pc' = "failed"
                          /\ UNCHANGED <<remote, twIdx>>
           ELSE /\ twIdx' = twIdx + 1
                /\ UNCHANGED <<remote, calls, pc, err, errBy>>
    /\ UNCHANGED <<nextUuid, packed_content, written, remote_files, synced_files,
                   retryVars, compressedKeeps>>

CleanupDone ==
    /\ pc = "z_cleanup" /\ twIdx > Len(CleanupListing(remote_files, remote))
    /\ pc' = NextStep("z_cleanup")
    /\ twIdx' = 1
    /\ UNCHANGED <<remote, nextUuid, packed_content, written, remote_files, synced_files,
                   retryVars, err, errBy, calls, compressedKeeps>>

NextCompressed ==
    \/ CompressedStart
    \/ CompressedUpload
    \/ CompressedDownload
    \/ CleanupNext
    \/ CleanupDone

SpecCompressed == InitCompressed /\ [][NextCompressed]_vars

\* The resolution of the references: two referenced projects in either
\* order, every kind of path mapping, every project holding any of the paths.
InitRefs ==
    /\ fs \in {f \in [Roots -> [Paths -> Contents \cup {NoFile}]] :
                 \A r \in Roots : \A p \in Paths :
                    f[r][p] \in {NoFile, IF r = "main" THEN "c1" ELSE "c2"}}
    /\ references \in {<<>>, <<"ref1">>, <<"ref2">>, <<"ref1", "ref2">>, <<"ref2", "ref1">>}
    /\ reference_paths \in [RefIds -> PathKinds \cup {NoMapping}]
    /\ resolved = NoResolution
    /\ remote = <<>> /\ nextUuid = 1
    /\ config = [two_way_sync |-> FALSE, prune_remote_files |-> FALSE]
    /\ SyncState
    /\ NoSession
    /\ UtimeWorks
    /\ OneActiveProject
    /\ NoCollection
    /\ IdleManager

\* ProjectReferencesManager.get_referenced_projects, called on its own.
ResolveReferences ==
    /\ pc = "idle"
    /\ resolved' = get_referenced_projects
    /\ pc' = "resolved"
    /\ UNCHANGED <<fs, mtime, remote, nextUuid, config, references, collectVars, managerVars,
                   reference_paths, packVars, utime_fails, sessionVars, dirVars, project, run, prev, mode,
                   pushVars, remote_files,
                   remote_files_to_delete, synced_files, loopVars, retryVars,
                   err, errBy, calls>>

NextRefs ==
    \/ ResolveReferences
    \/ PushStart
    \/ MergeRef
    \/ MergeMain
    \/ Fallback

SpecRefs == InitRefs /\ [][NextRefs]_vars

\* The compressed strategy's packing and unpacking of any set of text files.
InitPack ==
    /\ \E D \in SUBSET Paths : text_files \in [D -> Texts]
    /\ packed_content = <<>> /\ written = <<>>
    /\ tree = [q \in TreePaths |-> Absent]
    /\ files_config = [keys |-> {}, includes |-> <<>>, excludes |-> <<>>,
                       push_roots |-> <<>>, max_file_size |-> 0,
                       use_ignore_files |-> TRUE]
    /\ ignore_files = NoIgnoreFiles
    /\ collected = {}
    /\ nested = NoNested
    /\ fs = [r \in Roots |-> [p \in Paths |-> NoFile]]
    /\ references = <<>>
    /\ reference_paths = [r \in RefIds |-> NoMapping]
    /\ resolved = NoResolution
    /\ remote = <<>> /\ nextUuid = 1
    /\ config = [two_way_sync |-> TRUE, prune_remote_files |-> FALSE]
    /\ SyncState
    /\ NoSession
    /\ UtimeWorks
    /\ OneActiveProject
    /\ IdleManager

\* _sync_with_compression: _pack_files
Pack ==
    /\ pc = "idle"
    /\ packed_content' = pack_files(text_files)
    /\ pc' = "packed"
    /\ UNCHANGED <<fs, mtime, remote, nextUuid, config, references, collectVars, managerVars,
                   reference_paths, resolved, text_files, written, utime_fails, sessionVars, dirVars, project,
                   run, prev, mode,
                   pushVars, remote_files, remote_files_to_delete, synced_files,
                   loopVars, retryVars, err, errBy, calls>>

\* _sync_with_compression: _unpack_files of the stream that was packed
Unpack ==
    /\ pc = "packed"
    /\ written' = unpack_files(packed_content)
    /\ pc' = "unpacked"
    /\ UNCHANGED <<fs, mtime, remote, nextUuid, config, references, collectVars, managerVars,
                   reference_paths, resolved, text_files, packed_content, utime_fails, sessionVars, dirVars,
                   project, run, prev, mode,
                   pushVars, remote_files, remote_files_to_delete, synced_files,
                   loopVars, retryVars, err, errBy, calls>>

NextPack ==
    \/ Pack
    \/ Unpack

SpecPack == InitPack /\ [][NextPack]_vars

\* The references of references: any files in any project, the main project
\* referring to one or both projects, once or twice, and every referenced
\* project referring to itself, to the other or to both.
InitNest ==
    /\ fs \in [Roots -> [Paths -> {"c1", NoFile}]]
    /\ references \in {<<>>, <<"ref1">>, <<"ref1", "ref1">>, <<"ref1", "ref2">>, <<"ref2">>}
    /\ nested \in [RefIds -> {<<>>, <<"ref1">>, <<"ref2">>, <<"ref1", "ref2">>}]
    /\ reference_paths \in {[r \in RefIds |-> "ok"],
                            [r \in RefIds |-> IF r = "ref1" THEN NoMapping ELSE "ok"]}
    /\ remote = <<>> /\ nextUuid = 1
    /\ config = [two_way_sync |-> FALSE, prune_remote_files |-> FALSE]
    /\ resolved = NoResolution
    /\ text_files = EmptyMap /\ packed_content = <<>> /\ written = <<>>
    /\ tree = [q \in TreePaths |-> Absent]
    /\ files_config = [keys |-> {}, includes |-> <<>>, excludes |-> <<>>,
                       push_roots |-> <<>>, max_file_size |-> 0,
                       use_ignore_files |-> TRUE]
    /\ ignore_files = NoIgnoreFiles
    /\ collected = {}
    /\ SyncState
    /\ NoSession
    /\ UtimeWorks
    /\ OneActiveProject
    /\ IdleManager

NextNest ==
    \/ PushStart
    \/ MergeRef
    \/ MergeMain
    \/ Fallback

SpecNest == InitNest /\ [][NextNest]_vars

\* prune_remote_files(remote_files, remote_files_to_delete) called with any
\* listing and any set of candidate names, with a record in the listing or not.
InitPrune ==
    /\ \E s \in InitRemotes : remote = MkRemote(s) /\ nextUuid = Len(s) + 1
    /\ remote_files = remote
    /\ remote_files_to_delete \in SUBSET Paths
    /\ config \in [two_way_sync : {FALSE}, prune_remote_files : BOOLEAN]
    /\ pc = "prune"
    /\ run = 1 /\ prev = "none" /\ mode = "fallback"
    /\ files_by_project = EmptyMap /\ mergeTodo = <<>> /\ all_files = EmptyMap
    /\ synced_files = {}
    /\ todo = {} /\ visited = <<>> /\ cur = "" /\ twIdx = 0 /\ pruneTodo = {}
    /\ attempt = 0 /\ attemptLog = <<>> /\ sleeps = 0 /\ wres = "none"
    /\ err = "none" /\ errBy = "none" /\ calls = <<>>
    /\ mtime = [r \in Roots |-> [p \in Paths |-> 0]]
    /\ fs = [r \in Roots |-> [p \in Paths |-> NoFile]]
    /\ references = <<>>
    /\ reference_paths = [r \in RefIds |-> NoMapping]
    /\ resolved = NoResolution
    /\ NoSession
    /\ UtimeWorks
    /\ OneActiveProject
    /\ NoCollection
    /\ IdleManager

NextPrune ==
    \/ PruneStart
    \/ PruneNext
    \/ DeleteAttempt
    \/ PruneDone

SpecPrune == InitPrune /\ [][NextPrune]_vars

\* The variables no method of the configuration manager modelled here changes.
managerKeeps == <<fs, mtime, remote, nextUuid, config, references, collectVars,
                  reference_paths, resolved, packVars, dirVars, project,
                  utime_fails, sessionVars, run, prev, mode, pc,
                  pushVars, remote_files, remote_files_to_delete, synced_files,
                  loopVars, retryVars, err, errBy, calls>>

\* What the file a reference path names holds: one of two configurations, or
\* text that is no JSON.
ConfigTexts == {"cfgA", "cfgB"}
FileTexts == ConfigTexts \cup {"badjson"}

\* reference_paths.get(ref_id) as _load_referenced_project_config sees it: no
\* mapping, or a path of some kind with the file it names.
PathArgs == [kind : PathKinds \cup {NoMapping}, content : FileTexts]

\* json.load(f) raises json.JSONDecodeError for text that is no JSON.
JsonLoads(text) == text \in ConfigTexts

\* Mutant: the cache is never consulted.
CacheHitNever(cache, ref_id) == FALSE

\* _load_referenced_project_config: 'if ref_id in self._referenced_configs_cache'
CacheHit(cache, ref_id) == ref_id \in DOMAIN cache

\* _load_referenced_project_config(ref_id, reference_paths): what it returns
\* and the cache it leaves.
load_referenced_project_config(cache, ref_id, path) ==
    IF CacheHit(cache, ref_id)
    THEN [result |-> cache[ref_id], cache |-> cache]
    ELSE IF path.kind = NoMapping
    THEN [result |-> PyNone, cache |-> cache]
    ELSE IF ~validate_reference_path(path.kind)
    THEN [result |-> PyNone, cache |-> cache]
    ELSE IF ~JsonLoads(path.content)
    THEN [result |-> PyNone, cache |-> cache]
    ELSE [result |-> path.content,
          cache |-> Overlay(cache, [r \in {ref_id} |-> path.content])]

\* One FileConfigManager whose referenced configurations are loaded and whose
\* cache is cleared in any order, the files and mappings changing in between.
InitCache ==
    /\ referenced_configs_cache = EmptyMap
    /\ loaded = NoCall
    /\ local_config = [k \in LookupKeys |-> Unset]
    /\ global_config = [k \in LookupKeys |-> Unset]
    /\ get_result = NoGet
    /\ fs = [r \in Roots |-> [p \in Paths |-> NoFile]]
    /\ references = <<>>
    /\ remote = <<>> /\ nextUuid = 1
    /\ config \in [two_way_sync : {FALSE}, prune_remote_files : {FALSE}]
    /\ reference_paths = [r \in RefIds |-> NoMapping]
    /\ resolved = NoResolution
    /\ SyncState
    /\ NoSession
    /\ UtimeWorks
    /\ OneActiveProject
    /\ NoCollection

\* _load_referenced_project_config(ref_id, reference_paths)
LoadReferencedProjectConfig ==
    /\ \E ref_id \in RefIds, path \in PathArgs :
          LET r == load_referenced_project_config(referenced_configs_cache, ref_id, path)
          IN  /\ referenced_configs_cache' = r.cache
              /\ loaded' = [called |-> TRUE, ref_id |-> ref_id, path |-> path,
                            hit |-> CacheHit(referenced_configs_cache, ref_id),
                            result |-> r.result]
    /\ UNCHANGED <<local_config, global_config, get_result, managerKeeps>>

\* clear_reference_cache()
ClearReferenceCache ==
    /\ referenced_configs_cache' = EmptyMap
    /\ loaded' = ClearCall
    /\ UNCHANGED <<local_config, global_config, get_result, managerKeeps>>

NextCache ==
    \/ LoadReferencedProjectConfig
    \/ ClearReferenceCache

SpecCache == InitCache /\ [][NextCache]_vars

\* The configuration lookup of one FileConfigManager: any global configuration
\* read from config.json, no local key set yet; set and get are called in any
\* order.
InitConfig ==
    /\ local_config = [k \in LookupKeys |-> Unset]
    /\ global_config \in [LookupKeys -> ConfigValues \cup {Unset}]
    /\ get_result = NoGet
    /\ referenced_configs_cache = EmptyMap
    /\ loaded = NoCall
    /\ fs = [r \in Roots |-> [p \in Paths |-> NoFile]]
    /\ references = <<>>
    /\ remote = <<>> /\ nextUuid = 1
    /\ config \in [two_way_sync : {FALSE}, prune_remote_files : {FALSE}]
    /\ reference_paths = [r \in RefIds |-> NoMapping]
    /\ resolved = NoResolution
    /\ SyncState
    /\ NoSession
    /\ UtimeWorks
    /\ OneActiveProject
    /\ NoCollection

\* get(key, default)
ConfigGet ==
    /\ \E k \in LookupKeys, d \in Defaults :
          get_result' = [key |-> k, default |-> d, value |-> get(k, d)]
    /\ UNCHANGED <<local_config, global_config, referenced_configs_cache, loaded,
                   managerKeeps>>

\* set(key, value, local): the value is stored in the local or in the global
\* configuration.
ConfigSet ==
    /\ \E k \in LookupKeys, v \in ConfigValues, local \in BOOLEAN :
          IF local
          THEN /\ local_config' = [local_config EXCEPT ![k] = v]
               /\ UNCHANGED global_config
          ELSE /\ global_config' = [global_config EXCEPT ![k] = v]
               /\ UNCHANGED local_config
    /\ get_result' = NoGet
    /\ UNCHANGED <<referenced_configs_cache, loaded, managerKeeps>>

NextConfig ==
    \/ ConfigGet
    \/ ConfigSet

SpecConfig == InitConfig /\ [][NextConfig]_vars

\* ----------------------------------------------------------------- claims
\* The digest the collector computed for the local file of an entry.
LocalDigest(info) == IF info.type = "dict" THEN info.hash.hash ELSE info.hash

CallIdx(op, name) == {i \in 1..Len(calls) : calls[i].op = op /\ calls[i].name = name}
Mutations == {i \in 1..Len(calls) : calls[i].op \in {"upload", "delete"}}

\* Local files of the running sync that have a remote file of the same name,
\* with a different / the same digest.
Existing == {f \in DOMAIN all_files : FirstMatch(remote_files, f) # NoRec}
Changed == {f \in Existing :
              LocalDigest(all_files[f]) # compute_md5_hash(FirstMatch(remote_files, f).content)}
Unchanged == Existing \ Changed

Completed == pc = "done"

\* C1: after a push that completed, a second push with no change of the local
\* files in between issues no upload_file and no delete_file.
C1_SecondRunIssuesNoMutation ==
    (Completed /\ mode = "main" /\ run >= 2 /\ prev = "done") => Mutations = {}

\* C2: a completed sync has, for every local file whose remote file of the same
\* name has another digest, exactly one delete_file, of that remote file's uuid,
\* directly followed by the one upload_file of the name with the local content;
\* the name has left the prune candidates and pruning deletes nothing under it.
C2_ChangedFileUpdate ==
    Completed =>
        \A f \in Changed :
            LET rf == FirstMatch(remote_files, f)
                D == CallIdx("delete", f)
                U == CallIdx("upload", f)
            IN  /\ Cardinality(D) = 1 /\ Cardinality(U) = 1
                /\ \A i \in D : /\ calls[i].uuid = rf.uuid
                                /\ calls[i].by = "update"
                                /\ i + 1 \in U
                /\ \A i \in U : calls[i].content = fs[file_root(all_files[f])][f]
                /\ f \notin remote_files_to_delete

C2_Witness ==
    /\ Completed /\ mode = "main" /\ config.prune_remote_files
    /\ \E f \in Changed : CallIdx("delete", f) # {} /\ CallIdx("upload", f) # {}
    /\ Cardinality(Changed) = 2

\* C3: a local file whose remote file of the same name has the same digest
\* gets no upload_file and no delete_file, and its name has left the prune
\* candidates when the sync completed.
C3_UnchangedUntouched ==
    /\ \A f \in Unchanged : CallIdx("upload", f) = {} /\ CallIdx("delete", f) = {}
    /\ Completed => \A f \in Unchanged : f \notin remote_files_to_delete

\* C4: with prune_remote_files set, when the sync completed every record of
\* the listing whose name is no local file has had a delete_file of its uuid
\* and is gone from the remote.
C4_PruneDeletesEveryOrphan ==
    (Completed /\ config.prune_remote_files) =>
        \A i \in 1..Len(remote_files) :
            remote_files[i].file_name \notin DOMAIN all_files =>
                /\ \E k \in 1..Len(calls) :
                     calls[k].op = "delete" /\ calls[k].uuid = remote_files[i].uuid
                /\ remote_files[i] \notin Range(remote)

\* C5: with prune_remote_files not set, no delete_file is issued for a name
\* that is no local file; every delete_file of the run is the delete of a
\* changed local file's remote file and precedes the upload of that file.
C5_NoPruneOnlyUpdateDeletes ==
    ~config.prune_remote_files =>
        \A i \in 1..Len(calls) :
            calls[i].op = "delete" =>
                /\ calls[i].name \in DOMAIN all_files
                /\ calls[i].name \in Changed
                /\ calls[i].by = "update"
                /\ (Completed => i < Len(calls) /\ calls[i + 1].op = "upload"
                                 /\ calls[i + 1].name = calls[i].name)

\* C6: in the log of one sync every call of the local->remote pass comes
\* before every two-way write, and every two-way write before every prune
\* delete; the local->remote loop visits no path twice and, once it is over,
\* has visited every path of the local set.
PhaseRank(e) == IF e.by \in {"update", "new"} THEN 1 ELSE IF e.by = "twoway" THEN 2 ELSE 3

C6_PhaseOrdering ==
    /\ \A i, j \in 1..Len(calls) : i < j => PhaseRank(calls[i]) <= PhaseRank(calls[j])
    /\ \A i, j \in 1..Len(visited) : i # j => visited[i] # visited[j]
    /\ pc \in {"twoway", "prune", "pruning", "retry", "done"} =>
           Range(visited) = DOMAIN all_files

C6_Witness ==
    /\ Completed
    /\ \E i, j, k \in 1..Len(calls) :
         PhaseRank(calls[i]) = 1 /\ PhaseRank(calls[j]) = 2 /\ PhaseRank(calls[k]) = 3
    /\ Len(visited) >= 1

\* C7: a wrapped call is attempted at most max_retries times; every attempt
\* but the last failed with a 403; a call whose attempts all failed with a 403
\* raises that error after max_retries attempts; a call returns exactly when
\* its last attempt succeeded, and it never returns without a result.
C7_BoundedRetry ==
    LET n == Len(attemptLog)
    IN  /\ n <= max_retries
        /\ \A i \in 1..(n - 1) : attemptLog[i] = "403"
        /\ wres \in {"none", "running", "returned", "raised"}
        /\ wres = "running" => n < max_retries
        /\ wres = "returned" => n >= 1 /\ attemptLog[n] = "ok"
        /\ wres = "raised" => n >= 1 /\ attemptLog[n] # "ok" /\ err = attemptLog[n]
        /\ (wres = "raised" /\ attemptLog[n] = "403") => n = max_retries
        /\ (n >= 1 /\ attemptLog[n] = "ok") => wres = "returned"

C7_Witness ==
    /\ wres = "raised" /\ err = "403"
    /\ attemptLog = <<"403", "403", "403">>

C9_EveryMutationRetried ==
    (err = "403" /\ errBy \in {"update_delete", "update_upload", "new_upload", "prune_delete"}) =>
        (wres = "raised" /\ Len(attemptLog) = max_retries)

\* C10: when push has merged the projects, every path the main project
\* collected is in the merged set with the main project's FileInfo and the
\* main root, whatever the references and their order; the same holds of the
\* set get_local_files merges.
C10_MainPrecedence ==
    /\ pc = "list" =>
         \A p \in DOMAIN files_by_project["main"] :
            /\ p \in DOMAIN all_files
            /\ all_files[p].hash = files_by_project["main"][p]
            /\ all_files[p].root_path = "main"
    /\ \A p \in DOMAIN collect_project_files("main") :
            /\ p \in DOMAIN get_local_files
            /\ get_local_files[p] = collect_project_files("main")[p]

C10_Witness ==
    /\ pc = "list" /\ Len(references) = 2
    /\ \E p \in DOMAIN files_by_project["main"] :
         \A r \in RefIds :
            /\ p \in DOMAIN files_by_project[r]
            /\ files_by_project[r][p].hash # files_by_project["main"][p].hash

\* The first reference, in the order the references are processed, whose
\* collected files hold the path.
FirstRefWith(p) ==
    LET I == {i \in 1..Len(references) : p \in DOMAIN collect_referenced_files(references[i])}
    IN  references[Min(I)]

RefOnlyPaths ==
    {p \in Paths : /\ p \notin DOMAIN collect_project_files("main")
                   /\ \E i \in 1..Len(references) :
                        p \in DOMAIN collect_referenced_files(references[i])}

\* C11: a path that the main project lacks and that several references hold
\* is in the merged set with the entry of the reference processed first, in
\* the set push merges and in the set get_local_files merges.
C11_FirstWriterWins ==
    /\ pc = "list" =>
         \A p \in RefOnlyPaths :
            /\ p \in DOMAIN all_files
            /\ all_files[p].root_path = FirstRefWith(p)
            /\ all_files[p].hash = files_by_project[FirstRefWith(p)][p]
    /\ \A p \in RefOnlyPaths :
            /\ p \in DOMAIN get_local_files
            /\ get_local_files[p] = collect_project_files(FirstRefWith(p))[p]

\* The traversal roots the include patterns give when read as the claim reads
\* them: the first segment of a pattern that has a directory part, if that
\* segment holds no wildcard.
LiteralPrefixRoots(includes) ==
    {includes[i][1] : i \in {k \in 1..Len(includes) :
                               /\ Len(includes[k]) >= 2
                               /\ "*" \notin Range(includes[k][1])}}

ExpectedTraversed(t, cfg) ==
    IF LiteralPrefixRoots(Includes(cfg)) = {} THEN WalkFrom(t, <<>>)
    ELSE UNION {WalkFrom(t, <<r>>) : r \in LiteralPrefixRoots(Includes(cfg))}

ScenarioA ==
    /\ Includes(files_config) = <<PatPy>> /\ Excludes(files_config) = <<>>
    /\ Get(files_config, "push_roots", <<>>) = <<>>
    /\ \A q \in TreePaths :
         tree[q] = IF q \in {<<APy>>, <<BTxt>>, <<CPyTilde>>} THEN PlainFile ELSE Absent
    /\ ignore_files = NoIgnoreFiles

\* C12: with no push_roots, the files collected are the eligible files below
\* the literal directory prefixes of the include patterns, or below the whole
\* root if no pattern has one; for includes = ["*.py"] and a root holding
\* a.py, b.txt and c.py~ of 500 bytes the collected set is {a.py}.
C12_TraversalRoots ==
    (pc = "collected" /\ Get(files_config, "push_roots", <<>>) = <<>>) =>
        /\ collected = {q \in ExpectedTraversed(tree, files_config) :
                          /\ match_file(Includes(files_config), q)
                          /\ ~match_file(Excludes(files_config), q)
                          /\ ~GetsizeRaises(tree[q])
                          /\ should_process_file(tree, files_config, ignore_files, q)
                          /\ Hashable(tree[q])}
        /\ ScenarioA => collected = {<<APy>>}

\* C13: a project whose includes list is empty collects no file, whatever the
\* tree and the rest of the configuration.
C13_IncludeEmpty ==
    (pc = "collected" /\ "includes" \in files_config.keys /\ files_config.includes = <<>>) =>
        collected = {}

C13_Witness ==
    /\ pc = "collected"
    /\ "includes" \in files_config.keys /\ files_config.includes = <<>>
    /\ "push_roots" \notin files_config.keys /\ "excludes" \notin files_config.keys
    /\ tree[<<APy>>] = PlainFile /\ tree[<<BTxt>>] = PlainFile

\* The checks of a traversed file other than the size check.
OtherChecksPass(t, cfg, q) ==
    /\ q \in Traversed(t, cfg)
    /\ match_file(Includes(cfg), q)
    /\ ~match_file(Excludes(cfg), q)
    /\ q[Len(q)][Len(q[Len(q)])] # "~"
    /\ t[q].stat /\ t[q].readable /\ t[q].nul # "sample" /\ t[q].utf8
    /\ NotPruned(cfg, ignore_files, q)
    /\ UseIgnoreFiles(cfg) => ~Ignored(ignore_files, q)

\* C14: a file that passes every other check is collected when its size is
\* max_file_size and is not collected when its size is max_file_size + 1;
\* without max_file_size in the configuration the limit is 32768.
C14_SizeBoundary ==
    pc = "collected" =>
        \A q \in FilesOf(tree) :
            OtherChecksPass(tree, files_config, q) =>
                /\ tree[q].size = MaxFileSize(files_config) => q \in collected
                /\ tree[q].size = MaxFileSize(files_config) + 1 => q \notin collected
                /\ "max_file_size" \notin files_config.keys =>
                     (q \in collected <=> tree[q].size <= DefaultMaxFileSize)

C14_Witness ==
    /\ pc = "collected"
    /\ "max_file_size" \notin files_config.keys
    /\ tree[<<APy>>].size = DefaultMaxFileSize
    /\ <<APy>> \in collected

\* The declared references get_referenced_projects rejects: no mapping, a
\* path that is not absolute, does not exist or cannot be read.
Offending ==
    {i \in 1..Len(references) :
        reference_paths[references[i]] \in {NoMapping, "relative", "missing", "unreadable"}}

C16_DegradedModeSync ==
    get_referenced_projects.raised =>
        /\ pc = "failed" => err \in {"403", "provider", "other", "oserror"}
        /\ (mode = "fallback" /\ pc \in {"list", "local"}) =>
               DOMAIN all_files = DOMAIN collect_project_files("main")

\* C17: an invalid reference takes no other project out of the merge: the
\* files of every declared reference with a valid path are in the result of
\* get_all_project_files and in the set get_local_files merges, next to the
\* files of the main project.
C17_PerReferenceIsolation ==
    /\ run >= 1 =>
         /\ "main" \in DOMAIN files_by_project
         /\ \A i \in 1..Len(references) :
               reference_paths[references[i]] = "ok" =>
                  /\ references[i] \in DOMAIN files_by_project
                  /\ files_by_project[references[i]] = collect_project_files(references[i])
    /\ \A p \in DOMAIN collect_project_files("main") : p \in DOMAIN get_local_files
    /\ \A i \in 1..Len(references) :
          reference_paths[references[i]] = "ok" =>
             \A p \in DOMAIN collect_project_files(references[i]) : p \in DOMAIN get_local_files

\* The references whose path passes every validation of the specification.
ValidRefs == {r \in RefIds : reference_paths[r] = "ok"}

\* C18: a reference whose path is relative, missing, unreadable, a symlink or
\* outside a .claudesync directory is never returned as resolved and no file
\* of its root is in a set that is synchronised.
C18_ReferencePathValidation ==
    /\ resolved.mapping \subseteq ValidRefs
    /\ DOMAIN files_by_project \subseteq {"main"} \cup ValidRefs
    /\ \A p \in DOMAIN all_files :
          all_files[p].root_path \in {"main"} \cup ValidRefs
    /\ \A p \in DOMAIN get_local_files :
          get_local_files[p].root_path \in {"main"} \cup ValidRefs

\* C19: unpacking the stream that packing produced writes every packed file
\* once, under its relative path and with its text unchanged, and writes
\* nothing else; this includes texts that hold "FILE:".
C19_PackUnpackRoundTrip ==
    pc = "unpacked" =>
        /\ \A p \in DOMAIN text_files :
              \E i \in 1..Len(written) :
                 written[i].path = <<p>> /\ written[i].content = text_files[p]
        /\ Len(written) = Cardinality(DOMAIN text_files)

\* Names of the files a successful upload_file of the running sync carried.
Uploaded == {calls[k].name : k \in {j \in 1..Len(calls) :
                                      calls[j].op = "upload" /\ calls[j].res = "ok"}}
Writes(name) == {k \in 1..Len(calls) : calls[k].op = "write" /\ calls[k].name = name}
WritesDone(name) == {k \in Writes(name) : calls[k].res = "ok"}

RemoteStamps(name) ==
    {r.created_at : r \in {x \in Range(remote_files) \cup Range(remote) : x.file_name = name}}

\* C21: when an uncompressed sync completed, every local file that was
\* uploaded in it, as new or as changed, and whose timestamp can be set has
\* the created_at of a remote record of its name as its modification time.
C21_TimestampConvergence ==
    Completed =>
        \A f \in Uploaded :
            f \notin utime_fails =>
                mtime[file_root(all_files[f])][f] \in RemoteStamps(f)

\* The places of a single-file upload or update action that can fail.
UploadActionErrors ==
    {"update_delete", "update_read", "update_upload", "new_read", "new_upload"}

Aborted == pc \in {"fallback", "failed"} /\ errBy \in UploadActionErrors

\* C22: a provider call of an upload or update action that failed is the last
\* call of its sync, its error has left sync and reached push, and so has the
\* error of reading the local file; the sync call that was left has made no
\* two-way write and no prune delete, and the file that failed is the last
\* one the local->remote loop visited.
C22_VisibleMutationFailures ==
    /\ \A i \in 1..Len(calls) :
          (calls[i].by \in {"update", "new"} /\ calls[i].res # "ok") =>
              /\ i = Len(calls)
              /\ Aborted /\ pc = OnRaise(mode)
              /\ err = calls[i].res
              /\ visited[Len(visited)] = calls[i].name
    /\ errBy \in UploadActionErrors => Aborted /\ err # "none"
    /\ Aborted =>
          /\ \A i \in 1..Len(calls) : calls[i].by \notin {"twoway", "prune"}
          /\ Len(visited) >= 1
          /\ todo = DOMAIN all_files \ Range(visited)

C22_Witness ==
    /\ Aborted /\ errBy = "update_upload" /\ err = "provider"
    /\ todo # {}
    /\ config.two_way_sync /\ config.prune_remote_files
    /\ \E i \in 1..Len(remote_files) : remote_files[i].file_name \in todo

\* active_project.json names a project whose project_id.json exists and
\* holds the id it records.
ActiveConsistent(dir) ==
    dir.active_project # NoProject =>
        /\ HasProjectId(dir, dir.active_project.project_path)
        /\ dir.active_project.project_id = dir.project_id[dir.active_project.project_path]

\* C23: whatever project create, project set, push and POST
\* /api/set-active-project commands have run, active_project.json, if there
\* is one, names a project whose project_id.json exists and records the id
\* stored there; right after a successful project create with internal name N
\* there are N.project.json and N.project_id.json, the id is the uuid the
\* provider has just given and the active project is (N, that uuid).
C23_ActiveProjectConsistency ==
    /\ ActiveConsistent(config_dir)
    /\ (last_command.op = "create" /\ last_command.ok) =>
          /\ last_command.path \in config_dir.project_json
          /\ config_dir.project_id[last_command.path] = last_command.id
          /\ last_command.id = ProjectUuid(created)
          /\ get_active_project(config_dir) =
                [project_path |-> last_command.path, project_id |-> last_command.id]

C23_Witness ==
    /\ last_command = Command("create", "lib", ProjectUuid(2), TRUE)
    /\ config_dir.project_id["all"] = ProjectUuid(1)
    /\ run >= 1
    /\ get_active_project(config_dir).project_path = "lib"

Candidates ==
    {q \in Traversed(tree, files_config) : match_file(Includes(files_config), q)}

\* The admission checks the classifier is described by.
ListedChecks(q) ==
    /\ tree[q].size <= MaxFileSize(files_config)
    /\ q[Len(q)][Len(q[Len(q)])] # "~"
    /\ UseIgnoreFiles(files_config) =>
         /\ ~match_file(ignore_files.gitignore, q)
         /\ ~match_file(ignore_files.claudeignore, q)
    /\ ~match_file(Excludes(files_config), q)
    /\ tree[q].readable /\ tree[q].nul # "sample"

\* C25: a file matched by the include-spec is collected if and only if its
\* size is at most max_file_size, its name does not end with '~', with
\* use_ignore_files it matches neither .gitignore nor .claudeignore, it does
\* not match the exclude-spec, and its first 8192 bytes are readable and hold
\* no NUL byte (stated for the files whose size can be read).
C25_ClassifierDecision ==
    pc = "collected" =>
        \A q \in Candidates :
            tree[q].stat => (q \in collected <=> ListedChecks(q))

\* C25, amended: the file is collected if and only if its size can be read,
\* the listed checks pass and its whole content decodes as UTF-8.
C25_ClassifierDecisionDecoded ==
    pc = "collected" =>
        \A q \in Candidates :
            q \in collected <=> (tree[q].stat /\ ListedChecks(q) /\ tree[q].utf8)

C25_Witness ==
    /\ pc = "collected"
    /\ <<APy>> \in Candidates
    /\ UseIgnoreFiles(files_config)
    /\ ignore_files = [gitignore |-> <<PatPy>>, claudeignore |-> <<>>]
    /\ tree[<<APy>>] = PlainFile /\ <<APy>> \notin collected
    /\ <<BTxt>> \in collected

\* The files whose size check, read or hashing fails.
Failing == {q \in FilesOf(tree) : ~tree[q].stat \/ ~tree[q].readable \/ ~tree[q].utf8}

\* The traversal roots that do not exist.
MissingRoots ==
    {i \in 1..Len(PushRoots(files_config)) :
        \A q \in FilesOf(tree) : q[1] # PushRoots(files_config)[i]}

\* C26: collecting a project's files never raises; a file whose size check,
\* read or hashing fails is not returned, a traversal root that does not
\* exist contributes nothing, and every file below an existing root that
\* passes all checks is returned whatever the other files and roots are.
C26_CollectionIsTotal ==
    /\ pc # "collect_raised"
    /\ pc = "collected" =>
         /\ collected \cap Failing = {}
         /\ \A q \in Candidates :
              (tree[q].stat /\ ListedChecks(q) /\ tree[q].utf8) => q \in collected

C26_Witness ==
    /\ pc = "collected"
    /\ PushRoots(files_config) = <<LibDir, SrcDir>> /\ MissingRoots = {1}
    /\ <<SrcDir, APy>> \in Raising(tree, files_config, ignore_files)
    /\ collected = {<<SrcDir, BTxt>>}

\* Local files of the running sync with no remote file of the same name.
New == DOMAIN all_files \ Existing

\* C27: a completed uncompressed sync has, for every local file whose name
\* does not occur in the remote listing, exactly one upload_file under that
\* name and no delete_file for it, and the path is in synced_files.
C27_NewFileUpload ==
    Completed =>
        \A f \in New :
            /\ Cardinality(CallIdx("upload", f)) = 1
            /\ CallIdx("delete", f) = {}
            /\ f \in synced_files

C27_Witness ==
    /\ Completed /\ config.prune_remote_files
    /\ Cardinality(New) = 1 /\ Existing # {}
    /\ \A f \in New : CallIdx("upload", f) # {} /\ f \in synced_files
    /\ \E i \in 1..Len(calls) : calls[i].op = "delete"

\* The names this sync call uploaded or wrote with success, by its log.
SyncedByLog ==
    {calls[k].name : k \in {j \in 1..Len(calls) :
                              calls[j].op \in {"upload", "write"} /\ calls[j].res = "ok"}}

\* The names of the listing this sync call found unchanged or uploaded again.
Settled ==
    {f \in Range(visited) \cap Existing :
        \/ ~PyNotEqual(local_hash(all_files[f]),
                       PyStr(compute_md5_hash(FirstMatch(remote_files, f).content)))
        \/ \E k \in CallIdx("upload", f) : calls[k].res = "ok"}

\* C30: at every point of a sync call, the first or a later one of the same
\* SyncManager, the tracking state is what the arguments and the calls and
\* writes of this call alone make it: the synced files are those uploaded or
\* written by this call, the prune candidates are the names of its listing
\* less those it settled, the files yet to visit are its local files less
\* those it visited.
C30_NoStateCarried ==
    pc \in {"local", "update_upload", "twoway", "prune", "pruning", "retry", "done"} =>
        /\ synced_files = SyncedByLog
        /\ pc \in {"local", "update_upload", "twoway", "prune"} =>
             remote_files_to_delete = FileNames(remote_files) \ Settled
        /\ todo = DOMAIN all_files \ Range(visited)

C30_Witness ==
    /\ Completed /\ run = 2 /\ prev = "none"
    /\ \E name \in Paths :
         /\ name \notin DOMAIN all_files /\ fs["main"][name] # NoFile
         /\ Writes(name) # {} /\ name \notin synced_files
    /\ synced_files # {}

\* The packed artifacts of the listing the sync was given that are still
\* on the remote.
OldArtifactsLeft ==
    {i \in 1..Len(remote_files) :
        /\ IsPacked(remote_files[i].file_name)
        /\ \E j \in 1..Len(remote) : remote[j].uuid = remote_files[i].uuid}

OldArtifacts == {i \in 1..Len(remote_files) : IsPacked(remote_files[i].file_name)}

\* C28: in a compressed sync every delete_file of a packed artifact comes
\* after the upload_file of the new artifact that succeeded; when the upload
\* has raised, every packed artifact of the listing is still on the remote;
\* when the sync completed, none of them is.
C28_CleanupAfterUpload ==
    /\ \A i \in 1..Len(calls) :
         calls[i].op = "delete" =>
            \E j \in 1..(i - 1) : calls[j].op = "upload" /\ calls[j].res = "ok"
    /\ (pc = "failed" /\ errBy = "compressed_upload") => OldArtifactsLeft = OldArtifacts
    /\ Completed => OldArtifactsLeft = {}

C28_Witness ==
    /\ Completed /\ config.two_way_sync
    /\ Cardinality(OldArtifacts) = 2
    /\ Len(remote_files) = 2 /\ remote_files[1].file_name = remote_files[2].file_name
    /\ remote_files[1].file_name = PackedName(now)
    /\ Len(remote) = 1 /\ remote[1].uuid = 3
    /\ Len(attemptLog) > 0

\* The projects whose files may enter the sync set: the main project and
\* the projects it refers to itself.
Direct == {"main"} \cup Range(references)

\* C29: the resolution reads the main project and each project it refers
\* to for its own files only: whatever the references declared by the
\* referenced projects, circular and repeated ones included, the resolution
\* ends, every project of the result is the main project or one it refers to
\* and holds files of its own root only, and every entry of the sync set is
\* a file of the root it is recorded under, the main project or a direct
\* reference.
C29_ReferencesDoNotNest ==
    /\ \A pid \in DOMAIN files_by_project :
         /\ pid \in Direct
         /\ \A p \in DOMAIN files_by_project[pid] :
              /\ fs[pid][p] # NoFile
              /\ files_by_project[pid][p].root_path = pid
    /\ \A p \in DOMAIN all_files :
         LET root == all_files[p].root_path
         IN  root \in Direct /\ fs[root][p] # NoFile

C29_Witness ==
    /\ pc = "list" /\ mode = "main"
    /\ references = <<"ref1", "ref1">>
    /\ nested["ref1"] = <<"ref1", "ref2">> /\ nested["ref2"] = <<"ref1">>
    /\ fs["ref2"]["b"] # NoFile /\ fs["ref1"]["b"] = NoFile /\ fs["main"]["b"] = NoFile
    /\ DOMAIN all_files = {"a"} /\ all_files["a"].root_path = "ref1"

\* The candidate names with no record in the listing.
Missed == {n \in remote_files_to_delete : FirstMatch(remote_files, n) = NoRec}

\* C31: a candidate name without a record in the listing gets no delete_file
\* and does not end the pruning: the run is only ever ended by a delete_file
\* that failed, and when the pruning completed the first record of every
\* other candidate has been deleted.
C31_PruneTolerance ==
    /\ \A n \in Missed : CallIdx("delete", n) = {}
    /\ wres = "stop_iteration" => pc \in {"pruning", "done"} /\ err = "none"
    /\ pc \in {"failed", "fallback"} =>
         /\ wres = "raised" /\ errBy = "prune_delete"
         /\ calls # <<>> /\ calls[Len(calls)].res # "ok"
    /\ (Completed /\ config.prune_remote_files) =>
         \A n \in remote_files_to_delete \ Missed :
            \E i \in CallIdx("delete", n) :
               /\ calls[i].res = "ok"
               /\ calls[i].uuid = FirstMatch(remote_files, n).uuid

C31_Witness ==
    /\ Completed /\ config.prune_remote_files
    /\ Missed = {"a"} /\ remote_files_to_delete = {"a", "b"}
    /\ \E i \in CallIdx("delete", "b") : calls[i].res = "ok"
    /\ \A i \in 1..Len(remote) : remote[i].file_name # "b"

\* The synced files that came from a referenced project.
FromReference == {f \in synced_files \cap DOMAIN all_files :
                    file_root(all_files[f]) # "main"}

\* C32: when update_local_timestamps runs, a synced file of a referenced
\* project that has a record in the listing and whose os.utime works gets
\* its modification time set under the root of the referenced project, and
\* the file of that name under the main project's local_path is left alone.
C32_TimestampTargetPath ==
    [][(pc = "local" /\ todo = {} /\ pc' # "local") =>
         \A f \in FromReference :
            (LastIndex(remote_files, f) # 0 /\ f \notin utime_fails) =>
               /\ mtime'[file_root(all_files[f])][f] =
                     remote_files[LastIndex(remote_files, f)].created_at
               /\ mtime'["main"][f] = mtime["main"][f]]_vars

\* What the code does for such a file: nothing under the root of the
\* referenced project is ever stamped.
C32_ReferencedRootsNeverStamped ==
    \A r \in RefIds : \A p \in Paths : mtime[r][p] = 0

\* C33: get(key, default) returns the value of the local configuration when
\* the key is set there, whatever the value, else the value of the global
\* configuration when the key is set there, else the default.
C33_LookupPrecedence ==
    get_result # NoGet =>
        LET k == get_result.key
        IN  get_result.value =
              IF local_config[k] # Unset THEN local_config[k]
              ELSE IF global_config[k] # Unset THEN global_config[k]
              ELSE get_result.default

\* What the code does: the precedence holds for the local values that are
\* truthy, and a falsy local value is never returned when the global
\* configuration or the default has another value.
C33_TruthyLocalWins ==
    get_result # NoGet =>
        LET k == get_result.key
        IN  /\ Truthy(dict_get(local_config, k, PyNone)) =>
                 get_result.value = local_config[k]
            /\ ~Truthy(dict_get(local_config, k, PyNone)) =>
                 get_result.value = dict_get(global_config, k, get_result.default)

\* The names with several records in the listing.
Duplicated ==
    {n \in FileNames(remote_files) :
        Cardinality({i \in 1..Len(remote_files) : remote_files[i].file_name = n}) > 1}

\* C34: the removal of a name from the candidates in update_existing_file
\* never raises KeyError: while the local files are visited, the name of
\* every file still to visit, and of the file being updated, that has a
\* record in the listing is in the candidate set, whatever the listing.
C34_RemovalNeverRaises ==
    /\ errBy # "remove_candidate"
    /\ pc = "update_upload" => cur \in remote_files_to_delete
    /\ pc = "local" =>
          \A f \in todo : FirstMatch(remote_files, f) # NoRec =>
                              f \in remote_files_to_delete

C34_Witness ==
    /\ pc = "local"
    /\ \E f \in Duplicated :
          /\ f \in Range(visited)
          /\ f \notin remote_files_to_delete
          /\ \E i \in CallIdx("upload", f) : calls[i].res = "ok"

\* The delete_file calls of the running sync, and the uuids of its listing.
Deletes == {i \in 1..Len(calls) : calls[i].op = "delete"}
ListedUuids == {remote_files[i].uuid : i \in 1..Len(remote_files)}

\* C35: every delete_file of an uncompressed sync has the uuid of a record of
\* the listing the sync was given, never the uuid of a file the run uploaded,
\* and no two delete_file calls of a run that succeeded have the same uuid.
C35_DeletesWithinListing ==
    /\ \A i \in Deletes :
          /\ calls[i].uuid \in ListedUuids
          /\ \A j \in 1..Len(calls) :
                calls[j].op = "upload" => calls[j].uuid # calls[i].uuid
    /\ \A i, j \in Deletes :
          (i # j /\ calls[i].res = "ok" /\ calls[j].res = "ok") =>
              calls[i].uuid # calls[j].uuid

C35_Witness ==
    /\ Completed
    /\ \E i, j \in Deletes :
          /\ calls[i].by = "update" /\ calls[i].res = "ok"
          /\ calls[j].by = "prune" /\ calls[j].res = "ok"
    /\ \E i \in Deletes : calls[i].res # "ok"
    /\ \E j \in 1..Len(calls) : calls[j].op = "upload" /\ calls[j].res = "ok"

\* The names of the listing that no local file of the running sync has.
RemoteOnly == FileNames(remote_files) \ DOMAIN all_files

\* C36: with two_way_sync and prune_remote_files both set, when the sync
\* completed every remote-only name is still a prune candidate and has had a
\* write of its content to the local tree that succeeded, followed by a
\* delete_file of it that succeeded.
C36_TwoWayThenPrune ==
    (Completed /\ config.two_way_sync /\ config.prune_remote_files) =>
        \A n \in RemoteOnly :
            /\ n \in remote_files_to_delete
            /\ \E w \in WritesDone(n) : \E d \in CallIdx("delete", n) :
                  w < d /\ calls[d].res = "ok"

\* What the code does: the two-way pass leaves the candidates alone, and a
\* completed run has deleted every remote-only name after attempting to
\* write it, whether or not a write succeeded.
C36_CandidatesKeptAndPruned ==
    /\ pc = "twoway" => RemoteOnly \subseteq remote_files_to_delete
    /\ (Completed /\ config.two_way_sync /\ config.prune_remote_files) =>
          \A n \in RemoteOnly :
              /\ n \in remote_files_to_delete
              /\ \E w \in Writes(n) : \E d \in CallIdx("delete", n) :
                    w < d /\ calls[d].res = "ok"

\* A completed run that deleted a remote-only file none of whose writes
\* succeeded.
C36_DeletedUnwritten ==
    /\ Completed /\ config.two_way_sync /\ config.prune_remote_files
    /\ \E n \in RemoteOnly :
          /\ WritesDone(n) = {}
          /\ fs["main"][n] = NoFile
          /\ \E d \in CallIdx("delete", n) : calls[d].res = "ok"
          /\ \A i \in 1..Len(remote) : remote[i].file_name # n

\* The sync was left by an error of the read or of the upload of an update.
UpdateBroken == Aborted /\ errBy \in {"update_read", "update_upload"}

\* C37: every upload_file of an update directly follows the successful
\* delete_file of the remote file of the name; when the read or the upload
\* of an update has failed, the sync has raised, the record it deleted is
\* gone from the remote, nothing was uploaded under the name, no call
\* follows the failed one, and the name is still a prune candidate and not
\* marked synced.
C37_DeleteThenUploadNoRollback ==
    /\ \A i \in 1..Len(calls) :
          (calls[i].op = "upload" /\ calls[i].by = "update") =>
              /\ i > 1
              /\ calls[i - 1].op = "delete" /\ calls[i - 1].by = "update"
              /\ calls[i - 1].name = calls[i].name /\ calls[i - 1].res = "ok"
    /\ UpdateBroken =>
          LET f == cur
              rf == FirstMatch(remote_files, f)
              D == {i \in CallIdx("delete", f) : calls[i].res = "ok"}
          IN  /\ D # {}
              /\ \A i \in D : /\ calls[i].uuid = rf.uuid
                              /\ i >= Len(calls) - 1
                              /\ i = Len(calls) <=> errBy = "update_read"
              /\ \A k \in 1..Len(remote) : remote[k].uuid # rf.uuid
              /\ \A i \in CallIdx("upload", f) : calls[i].res # "ok"
              /\ f \in remote_files_to_delete
              /\ f \notin synced_files

C37_Witness ==
    /\ UpdateBroken /\ errBy = "update_upload"
    /\ config.prune_remote_files
    /\ fs[file_root(all_files[cur])][cur] # NoFile
    /\ \A k \in 1..Len(remote) : remote[k].file_name # cur
    /\ calls[Len(calls)].op = "upload" /\ calls[Len(calls)].res # "ok"

\* The uuids the running sync has uploaded under, and the records of its
\* listing that are no packed artifacts.
UploadedUuids == {calls[i].uuid : i \in {j \in 1..Len(calls) :
                                          calls[j].op = "upload" /\ calls[j].res = "ok"}}
OtherRecords == {i \in 1..Len(remote_files) : remote_files[i].file_name = OtherName}

\* C38: a compressed sync calls delete_file for no uuid it has uploaded
\* under, and the artifact it uploaded stays on the remote; every record of
\* the listing whose name does not start with claudesync_packed_ gets no
\* delete_file and is on the remote unchanged; when the sync completed, the
\* remote holds exactly one packed artifact, the one the sync uploaded.
C38_CompressedFrame ==
    /\ \A i \in 1..Len(calls) :
          calls[i].op = "delete" =>
             /\ calls[i].uuid \notin UploadedUuids
             /\ calls[i].name # OtherName
    /\ \A u \in UploadedUuids : \E j \in 1..Len(remote) : remote[j].uuid = u
    /\ \A i \in OtherRecords : \E j \in 1..Len(remote) : remote[j] = remote_files[i]
    /\ Completed =>
          /\ Len(PackedOf(remote)) = 1
          /\ PackedOf(remote)[1].uuid \in UploadedUuids

C38_Witness ==
    /\ Completed
    /\ Len(remote_files) = 2
    /\ remote_files[1].file_name = PackedName(now)
    /\ remote_files[2].file_name = OtherName
    /\ Len(remote) = 2
    /\ \E i \in 1..Len(calls) : calls[i].op = "delete" /\ calls[i].res = "ok"

\* The path of the last load would pass the validation and its file parses.
Loadable(path) ==
    /\ path.kind # NoMapping
    /\ validate_reference_path(path.kind)
    /\ JsonLoads(path.content)

\* C39: every value in the cache is a parsed configuration; a load for an id
\* that was cached returns the cached value, whatever path the mapping
\* gives and whatever the file holds now; a load for an id that was not
\* cached, as every id is after clear_reference_cache, returns and caches
\* the file's configuration exactly when the path is mapped, passes the
\* validation and parses, and else returns None and caches nothing.
C39_ReferenceCache ==
    /\ \A r \in DOMAIN referenced_configs_cache :
          referenced_configs_cache[r] \in ConfigTexts
    /\ loaded.called =>
          IF loaded.hit
          THEN /\ loaded.ref_id \in DOMAIN referenced_configs_cache
               /\ loaded.result = referenced_configs_cache[loaded.ref_id]
          ELSE IF Loadable(loaded.path)
          THEN /\ loaded.result = loaded.path.content
               /\ loaded.ref_id \in DOMAIN referenced_configs_cache
               /\ referenced_configs_cache[loaded.ref_id] = loaded.path.content
          ELSE /\ loaded.result = PyNone
               /\ loaded.ref_id \notin DOMAIN referenced_configs_cache

C39_Witness ==
    /\ loaded.called /\ loaded.hit
    /\ loaded.path.kind = "missing"
    /\ loaded.path.content = "cfgB"
    /\ loaded.result = "cfgA"
    /\ DOMAIN referenced_configs_cache = RefIds


\* A load that follows clear_reference_cache directly is never a hit.
C39_FirstLoadAfterClear ==
    [][loaded = ClearCall /\ loaded'.called =>
         /\ ~loaded'.hit
         /\ loaded'.result # PyNone <=> Loadable(loaded'.path)]_vars

====
